---- MODULE Spec2Model ----
(***************************************************************************)
(* Metric engine, VPAC decomposer and analysis pipeline of                 *)
(* kpi-metric-ownership, as state machines.                                *)
(*                                                                         *)
(*   Spec      the MetricEngine (src/src/metrics/compute.py) over the      *)
(*             registry of src/src/metrics/definitions.py                  *)
(*   SpecDec   the VPACDecomposer (src/src/analysis/decomposition.py)      *)
(*   SpecMain  steps 3-5 of run_analysis.main (src/run_analysis.py)        *)
(*   SpecFn    single calls of the functions that read no object state:   *)
(*             validate_decomposition, the computation functions,         *)
(*             MetricDefinition.validate, segment_by_order_frequency      *)
(*                                                                         *)
(* Numbers.  The program computes in binary floating point (Python float,  *)
(* numpy float64: round to nearest, ties to even).  The model keeps that   *)
(* arithmetic and scales its precision down: a finite number is an integer *)
(* count of quanta of 2^-FracBits with at most MantBits significant bits,  *)
(* and every operation rounds its exact result to the nearest such number, *)
(* ties to even.  NaN is a value of its own; it is absorbing and every     *)
(* comparison with it is false.                                            *)
(***************************************************************************)
EXTENDS Integers, Sequences, FiniteSets, TLC

\* ------------------------------------------------------------ bounds
\* significant bits of a floating-point number (53 in the program)
MantBits == 3
\* binary digits after the point of the smallest quantum
FracBits == 7
\* most rows of a user-level table
MaxRows == 2
\* most entries of the decomposer's history
MaxHist == 2

\* ------------------------------------------------------------ floats
Unit == 2^FracBits

Abs(n) == IF n < 0 THEN -n ELSE n

RECURSIVE Quantum(_, _)
Quantum(a, q) == IF a >= (2^MantBits) * q THEN Quantum(a, 2 * q) ELSE q

\* n/d (n >= 0, d > 0) rounded to the nearest integer, ties to even
RoundHalfEven(n, d) ==
    LET q == n \div d
        r == n % d
    IN  IF 2 * r > d \/ (2 * r = d /\ q % 2 = 1) THEN q + 1 ELSE q

\* the float nearest to num/den quanta
Fl(num, den) ==
    LET n == Abs(num)
        q == Quantum(n \div den, 1)
        m == RoundHalfEven(n, den * q) * q
    IN  IF num < 0 THEN -m ELSE m

NaN == [nan |-> TRUE, v |-> 0]
Num(k) == [nan |-> FALSE, v |-> k]
\* the float of the whole number k
Whole(k) == Num(Fl(k * Unit, 1))
\* the float of the fraction n/d
Frac(n, d) == Num(Fl(n * Unit, d))
IsNa(x) == x.nan

FAdd(x, y) == IF x.nan \/ y.nan THEN NaN ELSE Num(Fl(x.v + y.v, 1))
FSub(x, y) == IF x.nan \/ y.nan THEN NaN ELSE Num(Fl(x.v - y.v, 1))
FMul(x, y) == IF x.nan \/ y.nan THEN NaN ELSE Num(Fl(x.v * y.v, Unit))
\* x / y for y # 0 (the callers test the divisor first)
FDiv(x, y) ==
    IF x.nan \/ y.nan THEN NaN
    ELSE IF y.v < 0 THEN Num(Fl(-(x.v * Unit), -y.v))
    ELSE Num(Fl(x.v * Unit, y.v))
FAbs(x) == IF x.nan THEN NaN ELSE Num(Abs(x.v))
FNeg(x) == IF x.nan THEN NaN ELSE Num(-x.v)
\* comparisons: false as soon as an operand is NaN
FLt(x, y) == ~x.nan /\ ~y.nan /\ x.v < y.v
FGt(x, y) == ~x.nan /\ ~y.nan /\ x.v > y.v
FEq(x, y) == ~x.nan /\ ~y.nan /\ x.v = y.v
FNe(x, y) == ~FEq(x, y)
FLe(x, y) == ~x.nan /\ ~y.nan /\ x.v <= y.v
\* comparison with the decimal literal n/d of the source
LtLit(x, n, d) == ~x.nan /\ x.v * d < n * Unit
GtLit(x, n, d) == ~x.nan /\ x.v * d > n * Unit
GeLit(x, n, d) == ~x.nan /\ x.v * d >= n * Unit
EqLit(x, n, d) == ~x.nan /\ x.v * d = n * Unit

\* ------------------------------------------------------------ tables
\* A table (pandas DataFrame): its column names and its rows; a row gives a
\* cell for every column name the model knows, read only for columns present.
ColsUser == {"user_id", "orders", "items", "orders_per_customer",
             "avg_basket_size", "reorder_rate", "small_basket_share",
             "median_days_since_prior"}

\* the schemas the provider answers with: the user-level one, one without the
\* basket column, and an order-level one (order_id, no user_id)
ColumnSets == {ColsUser,
               ColsUser \ {"avg_basket_size"},
               (ColsUser \ {"user_id"}) \cup {"order_id"}}

Customers == <<
    [user_id |-> Whole(1), order_id |-> Whole(1), orders |-> Whole(1), items |-> Whole(12),
     orders_per_customer |-> Whole(1), avg_basket_size |-> Whole(12),
     reorder_rate |-> Whole(0), small_basket_share |-> Whole(0),
     median_days_since_prior |-> NaN],
    [user_id |-> Whole(2), order_id |-> Whole(2), orders |-> Whole(6), items |-> Whole(48),
     orders_per_customer |-> Whole(6), avg_basket_size |-> Whole(8),
     reorder_rate |-> Frac(1, 2), small_basket_share |-> Frac(1, 2),
     median_days_since_prior |-> Whole(40)],
    [user_id |-> Whole(3), order_id |-> Whole(3), orders |-> Whole(14), items |-> Whole(14),
     orders_per_customer |-> Whole(14), avg_basket_size |-> Whole(1),
     reorder_rate |-> Whole(1), small_basket_share |-> Whole(1),
     median_days_since_prior |-> Whole(7)],
    [user_id |-> Whole(4), order_id |-> Whole(4), orders |-> Whole(0), items |-> Whole(0),
     orders_per_customer |-> Whole(0), avg_basket_size |-> Whole(0),
     reorder_rate |-> NaN, small_basket_share |-> Frac(3, 2),
     median_days_since_prior |-> Whole(0)] >>

\* the row lists of a table: at most MaxRows of the customers above, one row
\* each, in the order of their ids (no computation depends on the row order)
RowLists ==
    LET idx == UNION {[1..n -> 1..Len(Customers)] : n \in 0..MaxRows}
        up  == {s \in idx : \A i \in 1..(Len(s) - 1) : s[i] < s[i + 1]}
    IN  {[i \in 1..Len(s) |-> Customers[s[i]]] : s \in up}

Tables == [cols : ColumnSets, rows : RowLists]

\* data[col]: the cells of a column, in row order
Column(data, col) == [i \in 1..Len(data.rows) |-> data.rows[i][col]]

RECURSIVE DropNa(_)
DropNa(cells) ==
    IF cells = <<>> THEN <<>>
    ELSE IF IsNa(Head(cells)) THEN DropNa(Tail(cells))
    ELSE <<Head(cells)>> \o DropNa(Tail(cells))

RECURSIVE FSum(_)
FSum(cells) ==
    IF cells = <<>> THEN Num(0)
    ELSE FAdd(FSum(SubSeq(cells, 1, Len(cells) - 1)), cells[Len(cells)])

\* the sum of an integer column (orders, items); integer sums are exact
RECURSIVE IntSum(_, _)
IntSum(rows, col) ==
    IF rows = <<>> THEN 0
    ELSE (Head(rows)[col].v \div Unit) + IntSum(Tail(rows), col)

\* Series.mean(): the mean of the cells that are not null, NaN when none is
Mean(cells) ==
    LET xs == DropNa(cells)
    IN  IF xs = <<>> THEN NaN ELSE FDiv(FSum(xs), Whole(Len(xs)))

RECURSIVE Insert(_, _)
Insert(x, sorted) ==
    IF sorted = <<>> THEN <<x>>
    ELSE IF x.v <= Head(sorted).v THEN <<x>> \o sorted
    ELSE <<Head(sorted)>> \o Insert(x, Tail(sorted))

RECURSIVE Sorted(_)
Sorted(cells) ==
    IF cells = <<>> THEN <<>> ELSE Insert(Head(cells), Sorted(Tail(cells)))

\* Series.median(): the middle of the non-null cells, the mean of the two
\* middle ones when their number is even, NaN when there is none
Median(cells) ==
    LET xs == Sorted(DropNa(cells))
        n  == Len(xs)
    IN  IF n = 0 THEN NaN
        ELSE IF n % 2 = 1 THEN xs[(n + 1) \div 2]
        ELSE FDiv(FAdd(xs[n \div 2], xs[n \div 2 + 1]), Whole(2))

\* ------------------------------------------------------------ registry
Lit(n, d) == [n |-> n, d |-> d]

\* create_metric_registry(): the definitions, in the order of the dict
RegistryOrder == <<"vpac", "active_customers", "orders_per_customer",
                   "items_per_order", "reorder_rate", "small_basket_share",
                   "median_days_since_prior">>

MetricNames == {RegistryOrder[i] : i \in 1..Len(RegistryOrder)}

Registry ==
    [name \in MetricNames |->
        CASE name = "vpac" ->
               [name |-> name, grain |-> "OVERALL", tier |-> "P0",
                thresholds |-> ("min" :> Lit(0, 1)) @@ ("warn_min" :> Lit(100, 1)),
                validation_rules |-> ("division_by_zero" :> "error")]
          [] name = "active_customers" ->
               [name |-> name, grain |-> "OVERALL", tier |-> "P0",
                thresholds |-> ("min" :> Lit(1, 1)),
                validation_rules |-> ("allow_empty" :> FALSE)]
          [] name = "orders_per_customer" ->
               [name |-> name, grain |-> "USER", tier |-> "P0",
                thresholds |-> ("min" :> Lit(1, 1)),
                validation_rules |-> <<>>]
          [] name = "items_per_order" ->
               [name |-> name, grain |-> "USER", tier |-> "P0",
                thresholds |-> ("min" :> Lit(1, 1)),
                validation_rules |-> <<>>]
          [] name = "reorder_rate" ->
               [name |-> name, grain |-> "USER", tier |-> "P1",
                thresholds |-> ("min" :> Lit(0, 1)) @@ ("max" :> Lit(1, 1))
                               @@ ("warn_min" :> Lit(3, 10)),
                validation_rules |-> ("allow_null" :> FALSE)]
          [] name = "small_basket_share" ->
               [name |-> name, grain |-> "USER", tier |-> "P1",
                thresholds |-> ("min" :> Lit(0, 1)) @@ ("max" :> Lit(1, 1))
                               @@ ("warn_max" :> Lit(3, 10)),
                validation_rules |-> <<>>]
          [] OTHER ->
               [name |-> name, grain |-> "USER", tier |-> "P2",
                thresholds |-> ("min" :> Lit(1, 1)) @@ ("warn_max" :> Lit(30, 1)),
                validation_rules |-> ("allow_null" :> TRUE)]]

\* ------------------------------------------------------------ computation functions
\* What a call yields: a value, or an exception (KeyError on a missing column).
Exc(e) == [kind |-> "raised", value |-> NaN, err |-> e]
Yield(x) == [kind |-> "value", value |-> x, err |-> "none"]

\* data[col].mean(), KeyError when the column is missing
ColMean(data, col) ==
    IF col \in data.cols THEN Yield(Mean(Column(data, col))) ELSE Exc("KeyError")

compute_vpac(data) ==
    IF "orders_per_customer" \in data.cols /\ "avg_basket_size" \in data.cols
    THEN Yield(FMul(Mean(Column(data, "orders_per_customer")),
                    Mean(Column(data, "avg_basket_size"))))
    ELSE Exc("KeyError")

compute_active_customers(data) == Yield(Whole(Len(data.rows)))

compute_orders_per_customer(data) ==
    IF "orders" \in data.cols THEN ColMean(data, "orders")
    ELSE ColMean(data, "orders_per_customer")

compute_items_per_order(data) == ColMean(data, "avg_basket_size")

compute_reorder_rate(data) == ColMean(data, "reorder_rate")

compute_small_basket_share(data) == ColMean(data, "small_basket_share")

compute_median_days_since_prior(data) ==
    IF "median_days_since_prior" \in data.cols
    THEN Yield(Median(Column(data, "median_days_since_prior")))
    ELSE Exc("KeyError")

\* a computation function written by the caller of MetricDefinition, with a
\* Python division: float(data['items'].sum()) / float(data['orders'].sum()),
\* which raises ZeroDivisionError when the orders sum to 0
compute_total_items_per_order(data) ==
    IF ~({"items", "orders"} \subseteq data.cols) THEN Exc("KeyError")
    ELSE IF IntSum(data.rows, "orders") = 0
    THEN [kind |-> "zero_division", value |-> NaN, err |-> "ZeroDivisionError"]
    ELSE Yield(Frac(IntSum(data.rows, "items"), IntSum(data.rows, "orders")))

\* self.computation_fn(data) of the definition registered under name
computation_fn(name, data) ==
    CASE name = "vpac" -> compute_vpac(data)
      [] name = "active_customers" -> compute_active_customers(data)
      [] name = "orders_per_customer" -> compute_orders_per_customer(data)
      [] name = "items_per_order" -> compute_items_per_order(data)
      [] name = "reorder_rate" -> compute_reorder_rate(data)
      [] name = "small_basket_share" -> compute_small_basket_share(data)
      [] name = "total_items_per_order" -> compute_total_items_per_order(data)
      [] OTHER -> compute_median_days_since_prior(data)

\* ------------------------------------------------------------ MetricDefinition
\* validation_rules.get(key, default)
Rule(def, key, default) ==
    IF key \in DOMAIN def.validation_rules THEN def.validation_rules[key] ELSE default

\* what MetricDefinition.compute gives: a value or the ValueError it raises;
\* invoked tells whether computation_fn was called
Got(value, invoked) ==
    [kind |-> "value", value |-> value, err |-> "none", invoked |-> invoked]
Raised(err, invoked) ==
    [kind |-> "raised", value |-> NaN, err |-> err, invoked |-> invoked]

\* the end of MetricDefinition.compute raising on every null result, whatever
\* allow_null says; C18 tells it from Computed
ComputedNullRejected(def, r) ==
    CASE r.kind = "zero_division" ->
           IF Rule(def, "division_by_zero", "error") = "return_zero"
           THEN Got(Num(0), TRUE)
           ELSE IF Rule(def, "division_by_zero", "none") = "return_null"
           THEN Got(NaN, TRUE)
           ELSE Raised("DivisionByZero", TRUE)
      [] r.kind = "raised" -> Raised("ComputationFailed", TRUE)
      [] OTHER ->
           IF IsNa(r.value) THEN Raised("NullMetricValue", TRUE)
           ELSE Got(r.value, TRUE)

\* MetricDefinition.compute after computation_fn gave r: the except clauses
\* and the null check
Computed(def, r) ==
    CASE r.kind = "zero_division" ->
           IF Rule(def, "division_by_zero", "error") = "return_zero"
           THEN Got(Num(0), TRUE)
           ELSE IF Rule(def, "division_by_zero", "none") = "return_null"
           THEN Got(NaN, TRUE)
           ELSE Raised("DivisionByZero", TRUE)
      [] r.kind = "raised" -> Raised("ComputationFailed", TRUE)
      [] OTHER ->
           IF IsNa(r.value) /\ ~Rule(def, "allow_null", FALSE)
           THEN Raised("NullMetricValue", TRUE)
           ELSE Got(r.value, TRUE)

\* MetricDefinition.compute checking the required columns before the empty
\* table; C27 tells it from MetricCompute
MetricComputeColumnsFirst(def, data) ==
    IF "required_columns" \in DOMAIN def.validation_rules
       /\ def.validation_rules["required_columns"] \ data.cols # {}
    THEN Raised("MissingColumns", FALSE)
    ELSE IF Len(data.rows) = 0
    THEN IF Rule(def, "allow_empty", FALSE)
         THEN Got(Num(0), FALSE) ELSE Raised("EmptyDataset", FALSE)
    ELSE Computed(def, computation_fn(def.name, data))

\* MetricDefinition.compute
MetricCompute(def, data) ==
    IF Len(data.rows) = 0
    THEN IF Rule(def, "allow_empty", FALSE)
         THEN Got(Num(0), FALSE) ELSE Raised("EmptyDataset", FALSE)
    ELSE IF "required_columns" \in DOMAIN def.validation_rules
            /\ def.validation_rules["required_columns"] \ data.cols # {}
    THEN Raised("MissingColumns", FALSE)
    ELSE Computed(def, computation_fn(def.name, data))

\* validate with exclusive bounds (<= and >= for < and >); C19 tells it from
\* MetricValidate
validate_exclusive(def, value) ==
    IF IsNa(value)
    THEN IF Rule(def, "allow_null", FALSE) THEN "none" ELSE "NullMetricValue"
    ELSE IF "min" \in DOMAIN def.thresholds
            /\ ~GtLit(value, def.thresholds["min"].n, def.thresholds["min"].d)
    THEN "ThresholdViolation"
    ELSE IF "max" \in DOMAIN def.thresholds
            /\ GeLit(value, def.thresholds["max"].n, def.thresholds["max"].d)
    THEN "ThresholdViolation"
    ELSE "none"

\* MetricDefinition.validate: "none" when it returns True, else the error raised
MetricValidate(def, value) ==
    IF IsNa(value)
    THEN IF Rule(def, "allow_null", FALSE) THEN "none" ELSE "NullMetricValue"
    ELSE IF "min" \in DOMAIN def.thresholds
            /\ LtLit(value, def.thresholds["min"].n, def.thresholds["min"].d)
    THEN "ThresholdViolation"
    ELSE IF "max" \in DOMAIN def.thresholds
            /\ GtLit(value, def.thresholds["max"].n, def.thresholds["max"].d)
    THEN "ThresholdViolation"
    ELSE "none"

\* MetricDefinition.get_status
get_status(def, value) ==
    IF IsNa(value) THEN "UNKNOWN"
    ELSE IF "min" \in DOMAIN def.thresholds
            /\ LtLit(value, def.thresholds["min"].n, def.thresholds["min"].d)
    THEN "CRITICAL"
    ELSE IF "max" \in DOMAIN def.thresholds
            /\ GtLit(value, def.thresholds["max"].n, def.thresholds["max"].d)
    THEN "CRITICAL"
    ELSE IF "warn_min" \in DOMAIN def.thresholds
            /\ LtLit(value, def.thresholds["warn_min"].n, def.thresholds["warn_min"].d)
    THEN "WARNING"
    ELSE IF "warn_max" \in DOMAIN def.thresholds
            /\ GtLit(value, def.thresholds["warn_max"].n, def.thresholds["warn_max"].d)
    THEN "WARNING"
    ELSE "OK"

\* ------------------------------------------------------------ state
VARIABLES
    cache,            \* MetricEngine._cache: metric name -> memoized value
    user_kpis_cache,  \* MetricEngine._user_kpis_cache: <<>> for None, <<table>>
    queries,          \* successful provider queries since construction / clear_cache
    last,             \* the latest call on the engine and what it gave back
    history,          \* VPACDecomposer.decomposition_history
    dlast,            \* the latest call on the decomposer and what it gave back
    pc,               \* run_analysis.main: the step it is at
    run,              \* run_analysis.main: its locals and what it printed
    fn                \* a call of a library function: its arguments and result

vars == <<cache, user_kpis_cache, queries, last, history, dlast, pc, run, fn>>

engineVars == <<cache, user_kpis_cache, queries, last>>
decVars == <<history, dlast>>
mainVars == <<pc, run>>
fnVars == <<fn>>

\* ------------------------------------------------------------ MetricEngine
\* what the provider answers to the user-level query: a table, or a failure
\* (no connection, missing SQL file)
ProviderAnswers ==
    [ok : {TRUE}, table : Tables] \cup {[ok |-> FALSE, table |-> <<>>]}

\* _get_user_kpis without line 281 (the table is returned and not memoized);
\* C6 tells it from get_user_kpis
get_user_kpis_unmemoized(uk, answer) ==
    IF uk # <<>>
    THEN [ok |-> TRUE, table |-> uk, uk |-> uk, queried |-> FALSE]
    ELSE IF answer.ok
    THEN [ok |-> TRUE, table |-> <<answer.table>>, uk |-> uk, queried |-> TRUE]
    ELSE [ok |-> FALSE, table |-> <<>>, uk |-> uk, queried |-> FALSE]

\* MetricEngine._get_user_kpis, given the provider's answer should it be asked
get_user_kpis(uk, answer) ==
    IF uk # <<>>
    THEN [ok |-> TRUE, table |-> uk, uk |-> uk, queried |-> FALSE]
    ELSE IF answer.ok
    THEN [ok |-> TRUE, table |-> <<answer.table>>, uk |-> <<answer.table>>,
          queried |-> TRUE]
    ELSE [ok |-> FALSE, table |-> <<>>, uk |-> uk, queried |-> FALSE]

Grains == {"USER", "ORDER", "OVERALL", "CATEGORY"}

\* _enforce_grain without its USER branch; C9 tells it from enforce_grain
enforce_grain_but_user(grain, data) ==
    IF grain = "ORDER" /\ "order_id" \notin data.cols THEN "GrainMismatch"
    ELSE IF grain = "OVERALL" /\ Len(data.rows) = 0 THEN "GrainMismatch"
    ELSE "none"

\* MetricEngine._enforce_grain: "none" when it returns, else the error raised
enforce_grain(grain, data) ==
    IF grain = "USER" /\ "user_id" \notin data.cols THEN "GrainMismatch"
    ELSE IF grain = "ORDER" /\ "order_id" \notin data.cols THEN "GrainMismatch"
    ELSE IF grain = "OVERALL" /\ Len(data.rows) = 0 THEN "GrainMismatch"
    ELSE "none"

\* self._cache[name] = value
Put(c, name, value) ==
    [n \in (DOMAIN c) \cup {name} |-> IF n = name THEN value ELSE c[n]]

Row(def, value, status) ==
    [metric_name |-> def.name, tier |-> def.tier, value |-> value, status |-> status]

\* an except branch that drops the metric (no row); C3 tells it from Failed
FailedSilently(def, acc, c, e, inv) ==
    [acc EXCEPT !.cache = c, !.log = Append(@, <<def.name, e>>),
                !.invoked = @ \cup inv]

\* the except branch of the loop of compute_metrics_by_layer: the warning is
\* printed and a NULL row goes to the diagnostic layer
Failed(def, acc, c, e, inv) ==
    [cache |-> c, exec |-> acc.exec,
     diag |-> Append(acc.diag, Row(def, NaN, "ERROR")),
     log |-> Append(acc.log, <<def.name, e>>),
     invoked |-> acc.invoked \cup inv]

\* the metric whose computation_fn the call m of MetricDefinition.compute ran
Invoked(def, m) == IF m.invoked THEN {def.name} ELSE {}

\* a loop body that routes every validated metric to the executive layer,
\* whatever its tier; C8 tells it from BatchValidate
BatchValidateUntiered(def, acc, c, value, inv) ==
    IF MetricValidate(def, value) # "none"
    THEN Failed(def, acc, c, MetricValidate(def, value), inv)
    ELSE [cache |-> c,
          exec |-> Append(acc.exec, Row(def, value, get_status(def, value))),
          diag |-> acc.diag,
          log |-> acc.log,
          invoked |-> acc.invoked \cup inv]

\* the loop body without metric_def.validate: every value gets the status
\* get_status gives it; C26 tells it from BatchValidate
BatchUnvalidated(def, acc, c, value, inv) ==
    [cache |-> c,
     exec |-> IF def.tier \in {"P0", "P1"}
              THEN Append(acc.exec, Row(def, value, get_status(def, value)))
              ELSE acc.exec,
     diag |-> IF def.tier \in {"P0", "P1"} THEN acc.diag
              ELSE Append(acc.diag, Row(def, value, get_status(def, value))),
     log |-> acc.log,
     invoked |-> acc.invoked \cup inv]

\* the loop body from validate on: the value (already in the cache c) is
\* validated, given a status and routed to a layer by tier
BatchValidate(def, acc, c, value, inv) ==
    IF MetricValidate(def, value) # "none"
    THEN Failed(def, acc, c, MetricValidate(def, value), inv)
    ELSE [cache |-> c,
          exec |-> IF def.tier \in {"P0", "P1"}
                   THEN Append(acc.exec, Row(def, value, get_status(def, value)))
                   ELSE acc.exec,
          diag |-> IF def.tier \in {"P0", "P1"} THEN acc.diag
                   ELSE Append(acc.diag, Row(def, value, get_status(def, value))),
          log |-> acc.log,
          invoked |-> acc.invoked \cup inv]

\* the loop body on a cache miss, after metric_def.compute gave m: the value
\* is memoized, then validated
BatchMiss(def, acc, m) ==
    IF m.kind = "raised" THEN Failed(def, acc, acc.cache, m.err, Invoked(def, m))
    ELSE BatchValidate(def, acc, Put(acc.cache, def.name, m.value), m.value,
                       Invoked(def, m))

\* one iteration of the loop of compute_metrics_by_layer
BatchStep(def, data, acc) ==
    IF enforce_grain(def.grain, data) # "none"
    THEN Failed(def, acc, acc.cache, enforce_grain(def.grain, data), {})
    ELSE IF def.name \in DOMAIN acc.cache
    THEN BatchValidate(def, acc, acc.cache, acc.cache[def.name], {})
    ELSE BatchMiss(def, acc, MetricCompute(def, data))

RECURSIVE BatchLoop(_, _, _)
BatchLoop(i, data, acc) ==
    IF i > Len(RegistryOrder) THEN acc
    ELSE BatchLoop(i + 1, data, BatchStep(Registry[RegistryOrder[i]], data, acc))

\* the shape of last
Call(op) ==
    [op |-> op, name |-> "", use_cache |-> FALSE, outcome |-> "returned",
     err |-> "none", value |-> NaN, queried |-> FALSE, invoked |-> {},
     exec |-> <<>>, diag |-> <<>>, all |-> <<>>, log |-> <<>>,
     components |-> <<>>, grain |-> "", args |-> <<>>]

\* what compute_metrics_by_layer returns after its loop left r
BatchReturn(t, r) ==
    [outcome |-> "returned", err |-> "none", cache |-> r.cache,
     uk |-> t.uk, queried |-> t.queried, invoked |-> r.invoked,
     exec |-> r.exec, diag |-> r.diag, log |-> r.log]

\* compute_metrics_by_layer after _get_user_kpis gave t
BatchOn(c, uk, t) ==
    IF ~t.ok
    THEN [outcome |-> "raised", err |-> "ProviderError", cache |-> c, uk |-> uk,
          queried |-> FALSE, invoked |-> {}, exec |-> <<>>, diag |-> <<>>,
          log |-> <<>>]
    ELSE BatchReturn(t, BatchLoop(1, t.table[1],
                                  [cache |-> c, exec |-> <<>>, diag |-> <<>>,
                                   log |-> <<>>, invoked |-> {}]))

\* MetricEngine.compute_metrics_by_layer on the engine state (c, uk): the two
\* tables it returns (or the provider's failure, which it lets through) and the
\* state it leaves
compute_metrics_by_layer(c, uk, answer) == BatchOn(c, uk, get_user_kpis(uk, answer))

\* the engine after a call that gave r
Engine(r) ==
    /\ cache' = r.cache
    /\ user_kpis_cache' = r.uk
    /\ queries' = IF r.queried THEN queries + 1 ELSE queries

\* the engine after a batch run gave r
Batched(op, combined, r) ==
    /\ Engine(r)
    /\ last' = [Call(op) EXCEPT !.outcome = r.outcome, !.err = r.err,
                                !.queried = r.queried, !.invoked = r.invoked,
                                !.exec = r.exec, !.diag = r.diag,
                                !.all = IF combined THEN r.exec \o r.diag ELSE <<>>,
                                !.log = r.log]

\* the answers that can matter to a call: the provider is asked only when no
\* table is memoized
Asked == IF user_kpis_cache = <<>> THEN ProviderAnswers
         ELSE {[ok |-> FALSE, table |-> <<>>]}

ComputeMetricsByLayer ==
    /\ \E answer \in Asked :
          Batched("compute_metrics_by_layer", FALSE,
                  compute_metrics_by_layer(cache, user_kpis_cache, answer))
    /\ UNCHANGED <<decVars, mainVars, fnVars>>

\* compute_all_metrics concatenates the two tables of compute_metrics_by_layer
ComputeAllMetrics ==
    /\ \E answer \in Asked :
          Batched("compute_all_metrics", TRUE,
                  compute_metrics_by_layer(cache, user_kpis_cache, answer))
    /\ UNCHANGED <<decVars, mainVars, fnVars>>

\* the names compute is called with: the registered ones and one that is not
\* (active_customers and items_per_order are evaluated by the batch runs and by
\* get_north_star only)
CallNames == (MetricNames \ {"active_customers", "items_per_order"})
             \cup {"not_a_metric"}

\* what a call on the engine gives back, and the engine state it leaves
Res(outcome, err, value, c2, uk2, queried, invoked) ==
    [outcome |-> outcome, err |-> err, value |-> value, cache |-> c2,
     uk |-> uk2, queried |-> queried, invoked |-> invoked]

\* compute memoizing the value before it validates it, as the batch loop
\* does; C25 tells it from ComputeValue
ComputeValueMemoizedFirst(def, c, t, m) ==
    IF m.kind = "raised"
    THEN Res("raised", m.err, NaN, c, t.uk, t.queried, Invoked(def, m))
    ELSE IF MetricValidate(def, m.value) # "none"
    THEN Res("raised", MetricValidate(def, m.value), NaN,
             Put(c, def.name, m.value), t.uk, t.queried, Invoked(def, m))
    ELSE Res("returned", "none", m.value, Put(c, def.name, m.value), t.uk,
             t.queried, Invoked(def, m))

\* compute after metric_def.compute gave m: validate, memoize, return
ComputeValue(def, c, t, m) ==
    IF m.kind = "raised"
    THEN Res("raised", m.err, NaN, c, t.uk, t.queried, Invoked(def, m))
    ELSE IF MetricValidate(def, m.value) # "none"
    THEN Res("raised", MetricValidate(def, m.value), NaN, c, t.uk, t.queried,
             Invoked(def, m))
    ELSE Res("returned", "none", m.value, Put(c, def.name, m.value), t.uk,
             t.queried, Invoked(def, m))

\* compute on a cache miss, after _get_user_kpis gave t
ComputeMiss(def, c, uk, t) ==
    IF ~t.ok THEN Res("raised", "ProviderError", NaN, c, uk, FALSE, {})
    ELSE IF enforce_grain(def.grain, t.table[1]) # "none"
    THEN Res("raised", enforce_grain(def.grain, t.table[1]), NaN, c, t.uk,
             t.queried, {})
    ELSE ComputeValue(def, c, t, MetricCompute(def, t.table[1]))

\* compute without its cache check (lines 169-170); C5 tells it from compute
compute_uncached(name, use_cache, c, uk, answer) ==
    IF name \notin MetricNames
    THEN Res("raised", "UnknownMetric", NaN, c, uk, FALSE, {})
    ELSE ComputeMiss(Registry[name], c, uk, get_user_kpis(uk, answer))

\* compute with the registry lookup after the table is fetched; C10 tells it
\* from compute
compute_fetch_first(name, use_cache, c, uk, answer) ==
    IF name \notin MetricNames
    THEN Res("raised", "UnknownMetric", NaN, c, get_user_kpis(uk, answer).uk,
             get_user_kpis(uk, answer).queried, {})
    ELSE IF use_cache /\ name \in DOMAIN c
    THEN Res("returned", "none", c[name], c, uk, FALSE, {})
    ELSE ComputeMiss(Registry[name], c, uk, get_user_kpis(uk, answer))

\* MetricEngine.compute on the engine state (c, uk): what it returns or raises,
\* and the state it leaves
compute(name, use_cache, c, uk, answer) ==
    IF name \notin MetricNames
    THEN Res("raised", "UnknownMetric", NaN, c, uk, FALSE, {})
    ELSE IF use_cache /\ name \in DOMAIN c
    THEN Res("returned", "none", c[name], c, uk, FALSE, {})
    ELSE ComputeMiss(Registry[name], c, uk, get_user_kpis(uk, answer))

\* the engine after compute(name, use_cache) gave r
Returned(name, use_cache, r) ==
    /\ Engine(r)
    /\ last' = [Call("compute") EXCEPT !.name = name, !.use_cache = use_cache,
                                       !.outcome = r.outcome, !.err = r.err,
                                       !.value = r.value, !.queried = r.queried,
                                       !.invoked = r.invoked]

Compute(name, use_cache) ==
    /\ \E answer \in Asked :
          Returned(name, use_cache,
                    compute(name, use_cache, cache, user_kpis_cache, answer))
    /\ UNCHANGED <<decVars, mainVars, fnVars>>

\* the tables compare_periods is given: a customer without orders, a regular
\* customer in a table without the basket column
PeriodTables ==
    {[cols |-> ColsUser, rows |-> <<Customers[4]>>],
     [cols |-> ColsUser \ {"avg_basket_size"}, rows |-> <<Customers[2]>>]}

\* metric_name of compare_periods: None ("") for every metric of the
\* registry, a registered name, a name that is not registered
CompareNames == {"", "reorder_rate", "not_a_metric"}

\* the row compare_periods appends for a metric computed on both tables; the
\* metric is named by its registry key (the code stores display_name and unit,
\* constants of the definition)
CompareRow(def, p1_value, p2_value) ==
    [metric |-> def.name, period_1 |-> p1_value, period_2 |-> p2_value,
     absolute_change |-> FSub(p2_value, p1_value),
     percent_change |-> IF FNe(p1_value, Num(0))
                        THEN FDiv(FSub(p2_value, p1_value), p1_value)
                        ELSE Num(0)]

\* compare_periods appending every row, also for a metric whose computation
\* failed (with null values); C30 tells it from CompareStep
CompareStepNoSkip(def, m1, m2, acc) ==
    [rows |-> Append(acc.rows, CompareRow(def, m1.value, m2.value)),
     log |-> acc.log]

\* one iteration of the loop of compare_periods, after metric_def.compute gave
\* m1 and m2: a row, or the warning printed by the except branch
CompareStep(def, m1, m2, acc) ==
    IF m1.kind = "raised"
    THEN [rows |-> acc.rows, log |-> Append(acc.log, <<def.name, m1.err>>)]
    ELSE IF m2.kind = "raised"
    THEN [rows |-> acc.rows, log |-> Append(acc.log, <<def.name, m2.err>>)]
    ELSE [rows |-> Append(acc.rows, CompareRow(def, m1.value, m2.value)),
          log |-> acc.log]

RECURSIVE CompareLoop(_, _, _, _)
CompareLoop(names, period1_data, period2_data, acc) ==
    IF names = <<>> THEN acc
    ELSE CompareLoop(Tail(names), period1_data, period2_data,
                     CompareStep(Registry[Head(names)],
                                 MetricCompute(Registry[Head(names)], period1_data),
                                 MetricCompute(Registry[Head(names)], period2_data),
                                 acc))

\* MetricEngine.compare_periods: the rows of the DataFrame it returns and the
\* warnings it prints; self.registry[name] raises KeyError for a name that is
\* not registered
compare_periods(period1_data, period2_data, metric_name) ==
    IF metric_name # "" /\ metric_name \notin MetricNames
    THEN [outcome |-> "raised", err |-> "KeyError", rows |-> <<>>, log |-> <<>>]
    ELSE [outcome |-> "returned", err |-> "none"]
         @@ CompareLoop(IF metric_name = "" THEN RegistryOrder
                        ELSE <<metric_name>>,
                        period1_data, period2_data,
                        [rows |-> <<>>, log |-> <<>>])

\* the engine after compare_periods gave r: nothing of it is touched
Compared(period1_data, period2_data, metric_name, r) ==
    /\ last' = [Call("compare_periods") EXCEPT
                   !.name = metric_name,
                   !.args = <<period1_data, period2_data>>,
                   !.outcome = r.outcome, !.err = r.err,
                   !.all = r.rows, !.log = r.log]
    /\ UNCHANGED <<cache, user_kpis_cache, queries>>

\* compare_periods reads its arguments only, so its result is tabulated once
CompareResult ==
    [period1_data \in PeriodTables, period2_data \in PeriodTables,
     metric_name \in CompareNames |->
        compare_periods(period1_data, period2_data, metric_name)]

ComparePeriods(period1_data, period2_data, metric_name) ==
    /\ Compared(period1_data, period2_data, metric_name,
                CompareResult[period1_data, period2_data, metric_name])
    /\ UNCHANGED <<decVars, mainVars, fnVars>>

\* a clear_cache that drops the metric values only; C7 tells it from ClearCache
ClearValues ==
    /\ cache' = <<>>
    /\ user_kpis_cache' = user_kpis_cache
    /\ queries' = queries
    /\ last' = Call("clear_cache")
    /\ UNCHANGED <<decVars, mainVars, fnVars>>

\* a clear_cache that forgets the table and keeps the metric values; C24
\* tells it from ClearCache
ClearTable ==
    /\ cache' = cache
    /\ user_kpis_cache' = <<>>
    /\ queries' = 0
    /\ last' = Call("clear_cache")
    /\ UNCHANGED <<decVars, mainVars, fnVars>>

\* MetricEngine.clear_cache
ClearCache ==
    /\ cache' = <<>>
    /\ user_kpis_cache' = <<>>
    /\ queries' = 0
    /\ last' = Call("clear_cache")
    /\ UNCHANGED <<decVars, mainVars, fnVars>>

\* what get_north_star gives back after its last compute r
NorthStar(r, value, q, inv, comps) ==
    [outcome |-> r.outcome, err |-> r.err, value |-> value,
     cache |-> r.cache, uk |-> r.uk, queried |-> q, invoked |-> inv,
     components |-> comps]

\* get_north_star after its three computes
NorthStar3(r1, r2, r3) ==
    NorthStar(r3, IF r3.outcome = "returned" THEN r1.value ELSE NaN,
              r1.queried \/ r2.queried \/ r3.queried,
              r1.invoked \cup r2.invoked \cup r3.invoked,
              IF r3.outcome = "returned" THEN <<r2.value, r3.value>> ELSE <<>>)

\* get_north_star after compute("orders_per_customer") gave r2
NorthStar2(answer, r1, r2) ==
    IF r2.outcome = "raised"
    THEN NorthStar(r2, NaN, r1.queried \/ r2.queried,
                   r1.invoked \cup r2.invoked, <<>>)
    ELSE NorthStar3(r1, r2,
                    compute("items_per_order", TRUE, r2.cache, r2.uk, answer))

\* get_north_star after compute("vpac") gave r1
NorthStar1(answer, r1) ==
    IF r1.outcome = "raised"
    THEN NorthStar(r1, NaN, r1.queried, r1.invoked, <<>>)
    ELSE NorthStar2(answer, r1,
                    compute("orders_per_customer", TRUE, r1.cache, r1.uk, answer))

\* MetricEngine.get_north_star on (c, uk): compute("vpac"),
\* compute("orders_per_customer"), compute("items_per_order"), each with the
\* default use_cache=True; the first one that raises ends the call
get_north_star(c, uk, answer) ==
    NorthStar1(answer, compute("vpac", TRUE, c, uk, answer))

\* the engine after get_north_star gave r
Starred(r) ==
    /\ Engine(r)
    /\ last' = [Call("get_north_star") EXCEPT !.outcome = r.outcome,
                                              !.err = r.err, !.value = r.value,
                                              !.queried = r.queried,
                                              !.invoked = r.invoked,
                                              !.components = r.components]

GetNorthStar ==
    /\ \E answer \in Asked :
          Starred(get_north_star(cache, user_kpis_cache, answer))
    /\ UNCHANGED <<decVars, mainVars, fnVars>>

\* a direct call of MetricEngine._get_user_kpis (as run_analysis.main makes)
GetUserKpis ==
    /\ \E answer \in Asked :
          LET t == get_user_kpis(user_kpis_cache, answer)
          IN  /\ user_kpis_cache' = t.uk
              /\ queries' = IF t.queried THEN queries + 1 ELSE queries
              /\ last' = [Call("_get_user_kpis") EXCEPT
                              !.outcome = IF t.ok THEN "returned" ELSE "raised",
                              !.err = IF t.ok THEN "none" ELSE "ProviderError",
                              !.queried = t.queried]
    /\ UNCHANGED <<cache, decVars, mainVars, fnVars>>

\* MetricEngine._enforce_grain on the memoized table, for a definition of any
\* grain
EnforceGrain(grain) ==
    /\ user_kpis_cache # <<>>
    /\ LET g == enforce_grain(grain, user_kpis_cache[1])
       IN  last' = [Call("_enforce_grain") EXCEPT
                        !.grain = grain,
                        !.outcome = IF g = "none" THEN "returned" ELSE "raised",
                        !.err = g]
    /\ UNCHANGED <<cache, user_kpis_cache, queries, decVars, mainVars, fnVars>>

\* ------------------------------------------------------------ VPACDecomposer
Entry(driver, contribution) == [driver |-> driver, contribution |-> contribution]

\* the values of a dict, in insertion order
Contributions(result) ==
    [i \in 1..Len(result.driver_contributions) |->
        result.driver_contributions[i].contribution]

\* decompose_vpac_change attributing each driver's effect to the other driver;
\* C12 tells it from decompose_vpac_change
decompose_swapped(p1, p2, label1, label2) ==
    LET total_change == FSub(p2.vpac, p1.vpac)
        orders_effect == FMul(FSub(p2.orders_per_customer, p1.orders_per_customer),
                              FDiv(FAdd(p1.items_per_order, p2.items_per_order),
                                   Whole(2)))
        items_effect == FMul(FDiv(FAdd(p1.orders_per_customer,
                                       p2.orders_per_customer), Whole(2)),
                             FSub(p2.items_per_order, p1.items_per_order))
    IN  [metric_name |-> "vpac",
         total_change |-> total_change,
         absolute_change |-> total_change,
         percent_change |-> IF FNe(p1.vpac, Num(0))
                            THEN FSub(FDiv(p2.vpac, p1.vpac), Whole(1)) ELSE Num(0),
         driver_contributions |->
             <<Entry("orders_per_customer", items_effect),
               Entry("items_per_order", orders_effect),
               Entry("interaction",
                     FSub(total_change, FAdd(orders_effect, items_effect)))>>,
         period_start |-> label1,
         period_end |-> label2]

\* decompose_vpac_change attributing from the levels of the first period
\* (delta orders at items1, orders2 at delta items) instead of the midpoints;
\* C28 tells it from decompose_vpac_change
decompose_from_base(p1, p2, label1, label2) ==
    [metric_name |-> "vpac",
     total_change |-> FSub(p2.vpac, p1.vpac),
     absolute_change |-> FSub(p2.vpac, p1.vpac),
     percent_change |-> IF FNe(p1.vpac, Num(0))
                        THEN FSub(FDiv(p2.vpac, p1.vpac), Whole(1)) ELSE Num(0),
     driver_contributions |->
         <<Entry("orders_per_customer",
                 FMul(FSub(p2.orders_per_customer, p1.orders_per_customer),
                      p1.items_per_order)),
           Entry("items_per_order",
                 FMul(p2.orders_per_customer,
                      FSub(p2.items_per_order, p1.items_per_order))),
           Entry("interaction",
                 FSub(FSub(p2.vpac, p1.vpac),
                      FAdd(FMul(FSub(p2.orders_per_customer,
                                     p1.orders_per_customer),
                                p1.items_per_order),
                           FMul(p2.orders_per_customer,
                                FSub(p2.items_per_order,
                                     p1.items_per_order)))))>>,
     period_start |-> label1,
     period_end |-> label2]

\* decompose_vpac_change without the test of vpac1 before the division: the
\* ratio to a zero baseline is not a number; C21 tells it from
\* decompose_vpac_change
decompose_unguarded(p1, p2, label1, label2) ==
    [metric_name |-> "vpac",
     total_change |-> FSub(p2.vpac, p1.vpac),
     absolute_change |-> FSub(p2.vpac, p1.vpac),
     percent_change |-> IF FEq(p1.vpac, Num(0)) THEN NaN
                        ELSE FSub(FDiv(p2.vpac, p1.vpac), Whole(1)),
     driver_contributions |->
         decompose_swapped(p2, p1, label1, label2).driver_contributions,
     period_start |-> label1,
     period_end |-> label2]

\* the body of VPACDecomposer.decompose_vpac_change: the DecompositionResult
decompose_vpac_change(p1, p2, label1, label2) ==
    LET vpac1 == p1.vpac
        vpac2 == p2.vpac
        orders_per_cust1 == p1.orders_per_customer
        orders_per_cust2 == p2.orders_per_customer
        items_per_order1 == p1.items_per_order
        items_per_order2 == p2.items_per_order
        total_change == FSub(vpac2, vpac1)
        percent_change == IF FNe(vpac1, Num(0))
                          THEN FSub(FDiv(vpac2, vpac1), Whole(1)) ELSE Num(0)
        delta_orders_per_cust == FSub(orders_per_cust2, orders_per_cust1)
        delta_items_per_order == FSub(items_per_order2, items_per_order1)
        avg_orders_per_cust == FDiv(FAdd(orders_per_cust1, orders_per_cust2), Whole(2))
        avg_items_per_order == FDiv(FAdd(items_per_order1, items_per_order2), Whole(2))
        orders_per_cust_contribution == FMul(delta_orders_per_cust, avg_items_per_order)
        items_per_order_contribution == FMul(avg_orders_per_cust, delta_items_per_order)
        interaction == FSub(total_change,
                            FAdd(orders_per_cust_contribution,
                                 items_per_order_contribution))
    IN  [metric_name |-> "vpac",
         total_change |-> total_change,
         absolute_change |-> total_change,
         percent_change |-> percent_change,
         driver_contributions |->
             <<Entry("orders_per_customer", orders_per_cust_contribution),
               Entry("items_per_order", items_per_order_contribution),
               Entry("interaction", interaction)>>,
         period_start |-> label1,
         period_end |-> label2]

\* validate_decomposition comparing the raw error with the tolerance, without
\* normalizing; C11 tells it from validate_decomposition
validate_raw_error(result, tol) ==
    ~GtLit(FAbs(FSub(FSum(Contributions(result)), result.total_change)),
           tol.n, tol.d)

\* VPACDecomposer.validate_decomposition: TRUE when it returns True, FALSE when
\* it raises ValueError; the tolerance is the decimal literal tol.n / tol.d
validate_decomposition(result, tol) ==
    LET component_sum == FSum(Contributions(result))
        error == FAbs(FSub(component_sum, result.total_change))
        error_fraction == IF FNe(result.total_change, Num(0))
                          THEN FDiv(error, FAbs(result.total_change)) ELSE error
    IN  ~GtLit(error_fraction, tol.n, tol.d)

\* the period metrics decompose_vpac_change is called with
Period(v, o, i) == [vpac |-> v, orders_per_customer |-> o, items_per_order |-> i]

Periods == {Period(Whole(0), Whole(0), Whole(0)),
            Period(Whole(0), Whole(3), Whole(0)),
            Period(Whole(2), Whole(1), Whole(2)),
            Period(Whole(10), Whole(5), Whole(2)),
            Period(Whole(12), Whole(1), Whole(12)),
            Period(Whole(1), Whole(2), Whole(5))}

\* the tolerance of validate_decomposition (its default, which main passes too)
Tolerance == Lit(1, 100)

\* the shape of dlast
DCall(op) == [op |-> op, outcome |-> "returned", args |-> <<>>, result |-> <<>>]

\* a decompose_vpac_change that puts its result at the head of the history;
\* C20 tells it from Decompose
DecomposePrepending(p1, p2) ==
    /\ Len(history) < MaxHist
    /\ history' = <<decompose_vpac_change(p1, p2, "Period 1", "Period 2")>>
                    \o history
    /\ dlast' = [DCall("decompose_vpac_change") EXCEPT
                    !.args = <<p1, p2>>,
                    !.result = <<decompose_vpac_change(p1, p2, "Period 1",
                                                       "Period 2")>>]
    /\ UNCHANGED <<engineVars, mainVars, fnVars>>

Decompose(p1, p2) ==
    /\ Len(history) < MaxHist
    /\ LET result == decompose_vpac_change(p1, p2, "Period 1", "Period 2")
       IN  /\ history' = Append(history, result)
           /\ dlast' = [DCall("decompose_vpac_change") EXCEPT !.args = <<p1, p2>>,
                                                              !.result = <<result>>]
    /\ UNCHANGED <<engineVars, mainVars, fnVars>>

\* validate_decomposition on a result the decomposer returned
Validate(k) ==
    /\ k \in 1..Len(history)
    /\ dlast' = [DCall("validate_decomposition") EXCEPT
                    !.result = <<history[k]>>,
                    !.outcome = IF validate_decomposition(history[k], Tolerance)
                                THEN "returned" ELSE "raised"]
    /\ UNCHANGED <<history, engineVars, mainVars, fnVars>>

\* the steps of create_waterfall_data for the first n drivers: each with its
\* contribution and the running sum
RECURSIVE WaterfallSteps(_, _)
WaterfallSteps(result, n) ==
    IF n = 0 THEN <<>>
    ELSE Append(WaterfallSteps(result, n - 1),
                [step |-> result.driver_contributions[n].driver,
                 value |-> result.driver_contributions[n].contribution,
                 cumulative |->
                     FSum(SubSeq(Contributions(result), 1, n)),
                 type |-> "driver"])

\* VPACDecomposer.create_waterfall_data: the rows of the DataFrame
create_waterfall_data(result) ==
    Append(WaterfallSteps(result, Len(result.driver_contributions)),
           [step |-> "Total Change", value |-> result.total_change,
            cumulative |-> result.total_change, type |-> "total"])

\* create_waterfall_data on a result the decomposer returned
Waterfall(k) ==
    /\ k \in 1..Len(history)
    /\ dlast' = [DCall("create_waterfall_data") EXCEPT
                    !.args = <<history[k]>>,
                    !.result = <<create_waterfall_data(history[k])>>]
    /\ UNCHANGED <<history, engineVars, mainVars, fnVars>>

DecInit ==
    /\ history = <<>>
    /\ dlast = DCall("__init__")

\* ------------------------------------------------------------ run_analysis.main
\* the --segment filter of main; "none" when the option is absent
SegmentArgs == {"none", "power_users", "regular", "occasional", "one_time"}

InSegment(r, segment) ==
    CASE segment = "power_users" -> GeLit(r.orders, 11, 1)
      [] segment = "regular" -> GeLit(r.orders, 5, 1) /\ LtLit(r.orders, 11, 1)
      [] segment = "occasional" -> GeLit(r.orders, 2, 1) /\ LtLit(r.orders, 5, 1)
      [] segment = "one_time" -> EqLit(r.orders, 1, 1)
      [] OTHER -> TRUE

\* rows[mask]: the rows whose index is in keep, in order
RECURSIVE Rows(_, _, _)
Rows(rows, keep, i) ==
    IF i > Len(rows) THEN <<>>
    ELSE IF i \in keep THEN <<rows[i]>> \o Rows(rows, keep, i + 1)
    ELSE Rows(rows, keep, i + 1)

SegmentFilter(data, segment) ==
    IF segment = "none" THEN data
    ELSE [data EXCEPT !.rows =
             Rows(data.rows,
                  {i \in 1..Len(data.rows) : InSegment(data.rows[i], segment)}, 1)]

\* CustomerSegmentation.segment_by_order_frequency, as far as main depends on
\* it: it adds the column segment to the table it is given, then aggregates;
\* a missing column raises KeyError (before the assignment for orders, after
\* it for the aggregated columns)
SegmentColumns == {"user_id", "orders", "items", "orders_per_customer",
                   "avg_basket_size"}

segment_by_order_frequency(data) ==
    IF "orders" \notin data.cols
    THEN [outcome |-> "raised", data |-> data]
    ELSE [outcome |-> IF SegmentColumns \subseteq data.cols THEN "returned"
                      ELSE "raised",
          data |-> [data EXCEPT !.cols = @ \cup {"segment"}]]

CohortPeriod(orders_per_customer, avg_basket_size) ==
    Period(FMul(orders_per_customer, avg_basket_size), orders_per_customer,
           avg_basket_size)

\* the metrics of a cohort, as main computes them for the decomposition
CohortMetrics(cohort) ==
    CohortPeriod(Mean(Column(cohort, "orders_per_customer")),
                 Mean(Column(cohort, "avg_basket_size")))

Exit(code) ==
    /\ pc' = "exit"
    /\ run' = [run EXCEPT !.code = code]

\* [3/8] after get_metric_report() (not --quiet) ran the batch again and gave m
MainReported(b, n, m) ==
    /\ cache' = m.cache
    /\ user_kpis_cache' = n.uk
    /\ queries' = IF b.queried \/ n.queried THEN queries + 1 ELSE queries
    /\ last' = [Call("compute_metrics_by_layer") EXCEPT
                    !.invoked = m.invoked, !.exec = m.exec,
                    !.diag = m.diag, !.log = m.log]
    /\ pc' = "segments"
    /\ run' = [run EXCEPT !.metrics_df = b.exec \o b.diag,
                          !.north_star = <<n.value>>]

\* [3/8] after get_north_star() gave n
MainStarred(answer, b, n) ==
    IF n.outcome = "raised"
    THEN /\ cache' = n.cache
         /\ user_kpis_cache' = n.uk
         /\ queries' = IF b.queried \/ n.queried THEN queries + 1 ELSE queries
         /\ last' = [Call("get_north_star") EXCEPT
                         !.outcome = "raised", !.err = n.err,
                         !.queried = n.queried, !.invoked = n.invoked]
         /\ Exit(1)
    ELSE IF run.quiet
    THEN /\ cache' = n.cache
         /\ user_kpis_cache' = n.uk
         /\ queries' = IF b.queried \/ n.queried THEN queries + 1 ELSE queries
         /\ last' = [Call("get_north_star") EXCEPT
                         !.value = n.value, !.queried = n.queried,
                         !.invoked = n.invoked, !.components = n.components]
         /\ pc' = "segments"
         /\ run' = [run EXCEPT !.metrics_df = b.exec \o b.diag,
                               !.north_star = <<n.value>>]
    ELSE MainReported(b, n, compute_metrics_by_layer(n.cache, n.uk, answer))

\* [3/8] after compute_all_metrics() gave b
MainBatched(answer, b) ==
    IF b.outcome = "raised"
    THEN /\ last' = [Call("compute_all_metrics") EXCEPT
                         !.outcome = "raised", !.err = b.err]
         /\ UNCHANGED <<cache, user_kpis_cache, queries>>
         /\ Exit(1)
    ELSE MainStarred(answer, b, get_north_star(b.cache, b.uk, answer))

\* [3/8] engine = MetricEngine(loader); compute_all_metrics(); get_north_star();
\* get_metric_report() unless --quiet.  An exception ends main with code 1.
MainComputeKpis ==
    /\ pc = "metrics"
    /\ \E answer \in Asked :
          MainBatched(answer,
                      compute_metrics_by_layer(cache, user_kpis_cache, answer))
    /\ UNCHANGED <<decVars, fnVars>>

\* [4/8] user_kpis = engine._get_user_kpis(), filtered by --segment, then
\* segment_by_order_frequency(user_kpis).  Without a filter user_kpis is the
\* table object the engine memoizes, and the column it gains is gained there.
MainSegment ==
    /\ pc = "segments"
    /\ LET table == user_kpis_cache[1]
           aliased == run.segment = "none"
           filtered == IF "orders" \in table.cols
                       THEN [outcome |-> "returned",
                             data |-> SegmentFilter(table, run.segment)]
                       ELSE [outcome |-> "raised", data |-> table]
           seg == segment_by_order_frequency(filtered.data)
       IN  IF ~aliased /\ filtered.outcome = "raised"
           THEN /\ Exit(1)
                /\ UNCHANGED user_kpis_cache
           ELSE /\ user_kpis_cache' = IF aliased THEN <<seg.data>> ELSE user_kpis_cache
                /\ IF seg.outcome = "raised"
                   THEN Exit(1)
                   ELSE /\ pc' = "decompose"
                        /\ run' = [run EXCEPT !.user_kpis = <<seg.data>>]
    /\ last' = Call("_get_user_kpis")
    /\ UNCHANGED <<cache, queries, decVars, fnVars>>

\* the rows of user_kpis with orders <= median (low) or > median (high)
Cohort(user_kpis, median_orders, low) ==
    [user_kpis EXCEPT !.rows =
        Rows(user_kpis.rows,
             {i \in 1..Len(user_kpis.rows) :
                 IF low THEN FLe(user_kpis.rows[i].orders, median_orders)
                 ELSE FGt(user_kpis.rows[i].orders, median_orders)}, 1)]

\* main after decompose_vpac_change gave result
MainDecomposed(result) ==
    /\ history' = <<result>>
    /\ dlast' = [DCall("decompose_vpac_change") EXCEPT !.result = <<result>>]
    /\ run' = [run EXCEPT !.decomposition = <<result>>]

\* main with median_orders = user_kpis['orders'].median()
MainCohorts(user_kpis, median_orders) ==
    MainDecomposed(
        decompose_vpac_change(CohortMetrics(Cohort(user_kpis, median_orders, TRUE)),
                              CohortMetrics(Cohort(user_kpis, median_orders, FALSE)),
                              "Low-Frequency Users", "High-Frequency Users"))

\* [5/8] the cohorts below and above the median order count, their metrics,
\* decomposer = VPACDecomposer(); decomposer.decompose_vpac_change(...)
MainDecompose ==
    /\ pc = "decompose"
    /\ MainCohorts(run.user_kpis[1], Median(Column(run.user_kpis[1], "orders")))
    /\ pc' = "validate"
    /\ UNCHANGED <<engineVars, fnVars>>

\* try: decomposer.validate_decomposition(decomposition, tolerance=0.01)
\* except ValueError as e: print(f"WARNING: {e}")
MainValidate ==
    /\ pc = "validate"
    /\ LET ok == validate_decomposition(run.decomposition[1], Tolerance)
       IN  /\ dlast' = [DCall("validate_decomposition") EXCEPT
                           !.result = run.decomposition,
                           !.outcome = IF ok THEN "returned" ELSE "raised"]
           /\ run' = [run EXCEPT
                         !.printed = IF ~ok THEN Append(@, "WARNING")
                                     ELSE IF run.quiet THEN @
                                     ELSE Append(@, "Decomposition validated")]
    /\ pc' = "report"
    /\ UNCHANGED <<history, engineVars, fnVars>>

\* [6/8]-[8/8] charts, exports and the memo (external), then return 0
MainFinish ==
    /\ pc = "report"
    /\ Exit(0)
    /\ UNCHANGED <<engineVars, decVars, fnVars>>

Run(segment, quiet) ==
    [segment |-> segment, quiet |-> quiet, metrics_df |-> <<>>,
     north_star |-> <<>>, user_kpis |-> <<>>, decomposition |-> <<>>,
     printed |-> <<>>, code |-> -1]

\* main after data loading and the quality checks, for any --segment, --quiet
MainInit ==
    /\ pc = "metrics"
    /\ run \in {Run(segment, quiet) : segment \in SegmentArgs, quiet \in BOOLEAN}

EngineInit ==
    /\ cache = <<>>
    /\ user_kpis_cache = <<>>
    /\ queries = 0
    /\ last = Call("__init__")

DecIdle == DecInit

MainIdle ==
    /\ pc = "idle"
    /\ run = Run("none", FALSE)

\* no library function called yet
FnIdle == fn = [op |-> "none"]

Init == EngineInit /\ DecIdle /\ MainIdle /\ FnIdle

Next ==
    \/ ComputeMetricsByLayer
    \/ ComputeAllMetrics
    \/ \E name \in CallNames, use_cache \in BOOLEAN : Compute(name, use_cache)
    \/ ClearCache
    \/ GetNorthStar
    \/ GetUserKpis
    \/ \E grain \in Grains : EnforceGrain(grain)
    \/ \E period1_data \in PeriodTables, period2_data \in PeriodTables,
          metric_name \in CompareNames :
             ComparePeriods(period1_data, period2_data, metric_name)

Spec == Init /\ [][Next]_vars

\* the decomposer alone
EngineIdle == EngineInit

InitDec == EngineIdle /\ DecInit /\ MainIdle /\ FnIdle

NextDec ==
    \/ \E p1 \in Periods, p2 \in Periods : Decompose(p1, p2)
    \/ \E k \in 1..MaxHist : Validate(k)
    \/ \E k \in 1..MaxHist : Waterfall(k)

SpecDec == InitDec /\ [][NextDec]_vars

\* one run of main
InitMain == EngineInit /\ DecInit /\ MainInit /\ FnIdle

NextMain ==
    \/ MainComputeKpis
    \/ MainSegment
    \/ MainDecompose
    \/ MainValidate
    \/ MainFinish

SpecMain == InitMain /\ [][NextMain]_vars

\* ------------------------------------------------------------ library functions
\* The functions below read no state of an engine or a decomposer; a call is
\* recorded in fn with its arguments and what it gave.

\* the numbers hand-built results are made of
BuiltValues == {Whole(-2), Whole(0), Whole(3), Whole(5), NaN}
BuiltTotals == {Whole(0), Whole(8), Whole(10)}
BuiltDrivers == <<"orders_per_customer", "items_per_order", "interaction">>

\* DecompositionResult(...) built by hand: two or three driver contributions
\* of any value, with or without an interaction entry
BuiltResults ==
    {[metric_name |-> "vpac", total_change |-> t, absolute_change |-> t,
      percent_change |-> Num(0),
      driver_contributions |-> [i \in 1..Len(c) |-> Entry(BuiltDrivers[i], c[i])],
      period_start |-> "P1", period_end |-> "P2"] :
        t \in BuiltTotals,
        c \in [1..2 -> BuiltValues] \cup [1..3 -> BuiltValues]}

\* the tolerances validate_decomposition is called with
Tolerances == {Tolerance, Lit(1, 4)}

\* validate_decomposition(result, tolerance) on a hand-built result
ValidateBuilt(result, tol) ==
    /\ fn.op = "none"
    /\ fn' = [op |-> "validate_decomposition", result |-> result, tol |-> tol,
              outcome |-> IF validate_decomposition(result, tol)
                          THEN "returned" ELSE "raised"]
    /\ UNCHANGED <<engineVars, decVars, mainVars>>

\* a user row whose orders cell and orders_per_customer cell differ
Mismatched ==
    [user_id |-> Whole(5), order_id |-> Whole(5), orders |-> Whole(2), items |-> Whole(6),
     orders_per_customer |-> Whole(3), avg_basket_size |-> Whole(3),
     reorder_rate |-> Frac(1, 2), small_basket_share |-> Whole(0),
     median_days_since_prior |-> Whole(7)]

\* the tables the computation functions are called with: the provider's, and
\* those with the row above among their rows
FnRowLists ==
    LET all == Customers \o <<Mismatched>>
        idx == UNION {[1..n -> 1..Len(all)] : n \in 0..MaxRows}
        up  == {s \in idx : \A i \in 1..(Len(s) - 1) : s[i] < s[i + 1]}
    IN  {[i \in 1..Len(s) |-> all[s[i]]] : s \in up}

FnTables == [cols : ColumnSets, rows : FnRowLists]

\* a computation function of the registry called on a table
ComputationFn(name, data) ==
    /\ fn.op = "none"
    /\ fn' = [op |-> "computation_fn", name |-> name, data |-> data,
              m |-> computation_fn(name, data)]
    /\ UNCHANGED <<engineVars, decVars, mainVars>>

\* segment_order, the index of the summary segment_by_order_frequency returns
SegmentOrder == <<"One-time", "Occasional", "Regular", "Power User">>

\* assign_segment giving rows of more than 10 orders a label outside
\* segment_order; C15 tells it from assign_segment
assign_segment_other(orders) ==
    IF EqLit(orders, 1, 1) THEN "One-time"
    ELSE IF FLe(orders, Whole(4)) THEN "Occasional"
    ELSE IF FLe(orders, Whole(10)) THEN "Regular"
    ELSE "Other"

\* assign_segment of segment_by_order_frequency
assign_segment(orders) ==
    IF EqLit(orders, 1, 1) THEN "One-time"
    ELSE IF FLe(orders, Whole(4)) THEN "Occasional"
    ELSE IF FLe(orders, Whole(10)) THEN "Regular"
    ELSE "Power User"

\* user_kpis['orders'].apply(assign_segment): the cells of the new column
SegmentLabels(data) ==
    [i \in 1..Len(data.rows) |-> assign_segment(data.rows[i].orders)]

\* the rows of a group of groupby('segment')
GroupRows(data, seg) ==
    Rows(data.rows, {i \in 1..Len(data.rows) : SegmentLabels(data)[i] = seg}, 1)

\* column / column.sum() for one segment: 0/0 is NaN
Share(x, total) == IF total = 0 THEN NaN ELSE Frac(x, total)

\* a row of NaN: what reindex gives a label that has no group
NullRow ==
    [na |-> TRUE, customer_count |-> 0, orders |-> 0, items |-> 0,
     orders_per_customer |-> NaN, avg_basket_size |-> NaN, vpac |-> NaN,
     customer_share |-> NaN, order_share |-> NaN, item_share |-> NaN]

\* the summary row of a segment: the aggregates of its group, the shares of
\* the totals over all groups; after reindex a segment without rows has a row
\* of NaN
SummaryRow(data, g) ==
    IF g = <<>>
    THEN NullRow
    ELSE [na |-> FALSE, customer_count |-> Len(g),
          orders |-> IntSum(g, "orders"), items |-> IntSum(g, "items"),
          orders_per_customer |->
              Mean([i \in 1..Len(g) |-> g[i].orders_per_customer]),
          avg_basket_size |-> Mean([i \in 1..Len(g) |-> g[i].avg_basket_size]),
          vpac |-> FMul(Mean([i \in 1..Len(g) |-> g[i].orders_per_customer]),
                        Mean([i \in 1..Len(g) |-> g[i].avg_basket_size])),
          customer_share |-> Share(Len(g), Len(data.rows)),
          order_share |-> Share(IntSum(g, "orders"), IntSum(data.rows, "orders")),
          item_share |-> Share(IntSum(g, "items"), IntSum(data.rows, "items"))]

\* the labels a segment column can hold, in the order groupby sorts its keys
SortedLabels == <<"Occasional", "One-time", "Other", "Power User", "Regular">>

\* groupby('segment').agg(...) with the shares: a row, indexed by its label,
\* for each label that has rows, in sorted order
RECURSIVE Grouped(_, _)
Grouped(data, labels) ==
    IF labels = <<>> THEN <<>>
    ELSE IF GroupRows(data, Head(labels)) = <<>>
    THEN Grouped(data, Tail(labels))
    ELSE <<[segment |-> Head(labels)]
            @@ SummaryRow(data, GroupRows(data, Head(labels)))>>
         \o Grouped(data, Tail(labels))

\* the row of a summary indexed by label, a row of NaN when there is none
RECURSIVE Loc(_, _)
Loc(summary, label) ==
    IF summary = <<>> THEN [segment |-> label] @@ NullRow
    ELSE IF Head(summary).segment = label THEN Head(summary)
    ELSE Loc(Tail(summary), label)

\* the summary returned as groupby made it, without reindex; C22 tells it
\* from reindex
not_reindexed(summary, order) == summary

\* DataFrame.reindex(order): the rows of the labels of order, in that order
reindex(summary, order) ==
    [i \in 1..Len(order) |-> Loc(summary, order[i])]

\* the DataFrame segment_by_order_frequency returns, a row per segment of
\* segment_order
segment_summary(data) == reindex(Grouped(data, SortedLabels), SegmentOrder)

\* segment_by_order_frequency called on a table: the table afterwards, the
\* segment column it was given and the summary returned
SegmentByOrderFrequency(data) ==
    /\ fn.op = "none"
    /\ fn' = [op |-> "segment_by_order_frequency", data |-> data,
              outcome |-> segment_by_order_frequency(data).outcome,
              after |-> segment_by_order_frequency(data).data,
              segment |-> IF "orders" \in data.cols THEN SegmentLabels(data)
                          ELSE <<>>,
              summary |-> IF segment_by_order_frequency(data).outcome = "returned"
                          THEN segment_summary(data) ELSE <<>>]
    /\ UNCHANGED <<engineVars, decVars, mainVars>>

\* the values validate is called with: null, values below, at, between and
\* above the bounds of the registry
ValidateValues == {NaN, Whole(-1), Frac(-1, 128), Whole(0), Frac(1, 2),
                   Whole(1), Frac(5, 4), Whole(2), Whole(100)}

\* registry[name].validate(value)
ValidateValue(name, value) ==
    /\ fn.op = "none"
    /\ fn' = [op |-> "validate", name |-> name, value |-> value,
              err |-> MetricValidate(Registry[name], value)]
    /\ UNCHANGED <<engineVars, decVars, mainVars>>

\* the levels of the drivers of a period
Factors == {Whole(0), Whole(1), Whole(3), Whole(5)}

\* the period metrics decompose_vpac_change is called with: those whose vpac
\* is the product of the two drivers, as compute_vpac makes it, and the
\* periods above
FnPeriods ==
    Periods \cup {Period(FMul(o, i), o, i) : o \in Factors, i \in Factors}

\* decompose_vpac_change(p1, p2), then decompose_vpac_change(p2, p1)
DecomposeBothWays(p1, p2) ==
    /\ fn.op = "none"
    /\ fn' = [op |-> "decompose_vpac_change", p1 |-> p1, p2 |-> p2,
              result |-> decompose_vpac_change(p1, p2, "Period 1", "Period 2"),
              reversed |-> decompose_vpac_change(p2, p1, "Period 1", "Period 2")]
    /\ UNCHANGED <<engineVars, decVars, mainVars>>

\* the validation_rules of hand-built definitions: each rule absent or set
OptionalRule(key, values) == {<<>>} \cup {key :> v : v \in values}

BuiltRules ==
    {a @@ c @@ z :
        a \in OptionalRule("allow_empty", {TRUE, FALSE}),
        c \in OptionalRule("required_columns",
                           {{"orders", "items"}, {"orders", "basket_value"}}),
        z \in OptionalRule("division_by_zero",
                           {"error", "return_zero", "return_null"})}

\* MetricDefinition(...) built by hand over a computation function of the
\* registry and over the one with a Python division
BuiltDefinitions ==
    {[name |-> name, grain |-> "USER", tier |-> "P2", thresholds |-> <<>>,
      validation_rules |-> rules] :
        name \in {"items_per_order", "total_items_per_order"},
        rules \in BuiltRules}

\* definition.compute(data) on a hand-built definition
DefinitionCompute(def, data) ==
    /\ fn.op = "none"
    /\ fn' = [op |-> "compute", def |-> def, data |-> data,
              m |-> MetricCompute(def, data)]
    /\ UNCHANGED <<engineVars, decVars, mainVars>>

\* the call returns (or raises) and its caller goes on to the next call
FnReturn ==
    /\ fn.op # "none"
    /\ fn' = [op |-> "none"]
    /\ UNCHANGED <<engineVars, decVars, mainVars>>

InitFn == EngineIdle /\ DecIdle /\ MainIdle /\ FnIdle

NextFn ==
    \/ \E result \in BuiltResults, tol \in Tolerances : ValidateBuilt(result, tol)
    \/ \E name \in MetricNames, data \in FnTables : ComputationFn(name, data)
    \/ \E data \in FnTables : SegmentByOrderFrequency(data)
    \/ \E name \in MetricNames, value \in ValidateValues : ValidateValue(name, value)
    \/ \E p1 \in FnPeriods, p2 \in FnPeriods : DecomposeBothWays(p1, p2)
    \/ \E def \in BuiltDefinitions, data \in FnTables : DefinitionCompute(def, data)
    \/ FnReturn

SpecFn == InitFn /\ [][NextFn]_vars

\* ------------------------------------------------------------ properties
\* the rows a batch run returned, executive first
BatchOps == {"compute_metrics_by_layer", "compute_all_metrics"}
ReturnedRows == last.exec \o last.diag
RowsOf(name) == {i \in 1..Len(ReturnedRows) : ReturnedRows[i].metric_name = name}
LoggedNames == {last.log[i][1] : i \in 1..Len(last.log)}
BatchReturned == last.op \in BatchOps /\ last.outcome = "returned"

\* C1: the result of decompose_vpac_change has total_change = vpac2 - vpac1,
\* and its three driver contributions (orders_per_customer, items_per_order,
\* interaction) sum to exactly total_change, for every pair of period inputs
C1_ContributionsSumToTotal ==
    dlast.op = "decompose_vpac_change" =>
        /\ dlast.result[1].total_change
              = FSub(dlast.args[2].vpac, dlast.args[1].vpac)
        /\ Len(dlast.result[1].driver_contributions) = 3
        /\ FSum(Contributions(dlast.result[1])) = dlast.result[1].total_change

\* C2: compute(name) with caching requested never returns a value below the
\* metric's min threshold, above its max threshold, or null when allow_null is
\* unset, in any state the engine can reach
C2_ComputeReturnsValidValue ==
    (last.op = "compute" /\ last.use_cache /\ last.outcome = "returned") =>
        /\ IsNa(last.value) =>
              ("allow_null" \in DOMAIN Registry[last.name].validation_rules
               /\ Registry[last.name].validation_rules["allow_null"])
        /\ "min" \in DOMAIN Registry[last.name].thresholds =>
              ~LtLit(last.value, Registry[last.name].thresholds["min"].n,
                     Registry[last.name].thresholds["min"].d)
        /\ "max" \in DOMAIN Registry[last.name].thresholds =>
              ~GtLit(last.value, Registry[last.name].thresholds["max"].n,
                     Registry[last.name].thresholds["max"].d)

\* what makes the evaluation of a registered metric fail on the memoized table
GrainFails(name) ==
    \/ Registry[name].grain = "USER" /\ "user_id" \notin user_kpis_cache[1].cols
    \/ Registry[name].grain = "ORDER" /\ "order_id" \notin user_kpis_cache[1].cols
    \/ Registry[name].grain = "OVERALL" /\ Len(user_kpis_cache[1].rows) = 0

\* C3: a batch run on a table the provider returned completes with exactly one
\* row for every registered metric; a metric whose grain check, computation,
\* null check or threshold validation fails has a row with null value and
\* status ERROR, and the metrics after it are evaluated all the same (their
\* rows carry the value computed from the table)
C3_BatchCompletes ==
    last.op \in BatchOps =>
        /\ last.outcome = "raised" =>
              (user_kpis_cache = <<>> /\ last.err = "ProviderError")
        /\ last.outcome = "returned" =>
              /\ user_kpis_cache # <<>>
              /\ Len(ReturnedRows) = Len(RegistryOrder)
              /\ last.op = "compute_all_metrics" => last.all = ReturnedRows
              /\ \A name \in MetricNames :
                    /\ Cardinality(RowsOf(name)) = 1
                    /\ \A i \in RowsOf(name) :
                          IF \/ GrainFails(name)
                             \/ MetricCompute(Registry[name],
                                              user_kpis_cache[1]).kind = "raised"
                             \/ MetricValidate(Registry[name],
                                   MetricCompute(Registry[name],
                                                 user_kpis_cache[1]).value) # "none"
                          THEN /\ ReturnedRows[i].status = "ERROR"
                               /\ IsNa(ReturnedRows[i].value)
                               /\ name \in LoggedNames
                          ELSE /\ ReturnedRows[i].status # "ERROR"
                               /\ ReturnedRows[i].value
                                     = MetricCompute(Registry[name],
                                                     user_kpis_cache[1]).value
                               /\ name \notin LoggedNames

\* a batch run where the first metric of the registry failed and a later one
\* was evaluated with success
C3_Witness ==
    /\ BatchReturned
    /\ \E i \in RowsOf("vpac") : ReturnedRows[i].status = "ERROR"
    /\ \E i \in RowsOf("reorder_rate") : ReturnedRows[i].status \in {"OK", "WARNING"}

TableOps == BatchOps \cup {"compute", "get_north_star", "_get_user_kpis"}

\* C5: while a value is memoized for a metric, compute(name, use_cache=True)
\* returns that value without invoking the computation function, querying the
\* provider or changing the engine, whatever the provider would answer; with
\* no value memoized, or use_cache=False, a compute that returns has run the
\* computation function on the user-level table and memoized what it returns
C5_ComputeCache ==
    [][(last'.op = "compute" /\ last'.name \in MetricNames) =>
          IF last'.use_cache /\ last'.name \in DOMAIN cache
          THEN /\ last'.outcome = "returned"
               /\ last'.value = cache[last'.name]
               /\ last'.invoked = {}
               /\ ~last'.queried
               /\ UNCHANGED <<cache, user_kpis_cache, queries>>
          ELSE last'.outcome = "returned" =>
                  /\ last'.invoked = {last'.name}
                  /\ user_kpis_cache' # <<>>
                  /\ last'.value
                        = computation_fn(last'.name, user_kpis_cache'[1]).value
                  /\ DOMAIN cache' = DOMAIN cache \cup {last'.name}
                  /\ cache'[last'.name] = last'.value
                  /\ \A n \in DOMAIN cache \ {last'.name} : cache'[n] = cache[n]]_vars

\* a compute answered from the cache
C5_Witness ==
    /\ last.op = "compute"
    /\ last.use_cache
    /\ last.outcome = "returned"
    /\ last.invoked = {}
    /\ last.name \in DOMAIN cache
    /\ cache[last.name] = last.value

\* C6: between construction (or the latest clear_cache) and the next
\* clear_cache the provider is successfully queried at most once; construction
\* does not query it; a query happens only in an operation that reads the
\* table, and only when no table is memoized
C6_QueriedAtMostOnce ==
    /\ [](/\ queries \in {0, 1}
          /\ last.op = "__init__" => (queries = 0 /\ user_kpis_cache = <<>>)
          /\ queries = 1 <=> user_kpis_cache # <<>>)
    /\ [][last'.queried =>
             /\ last'.op \in TableOps
             /\ user_kpis_cache = <<>>
             /\ queries = 0
             /\ queries' = 1]_vars

\* an operation that read the table without a query, after the one query
C6_Witness ==
    /\ queries = 1
    /\ last.op = "compute"
    /\ last.outcome = "returned"
    /\ last.invoked # {}
    /\ ~last.queried

\* C7: clear_cache succeeds in any state and leaves no metric value and no
\* user-level table memoized; the operation after it that reads the table
\* queries the provider again and a compute then recomputes its value; a
\* second clear_cache changes nothing
C7_ClearCache ==
    [][/\ last'.op = "clear_cache" =>
             /\ last'.outcome = "returned"
             /\ cache' = <<>>
             /\ user_kpis_cache' = <<>>
       /\ last.op = "clear_cache" =>
             /\ last'.op = "clear_cache" => UNCHANGED vars
             /\ (last'.op \in TableOps /\ last'.outcome = "returned") =>
                    last'.queried
             /\ (last'.op = "compute" /\ last'.outcome = "returned") =>
                    (last'.invoked = {last'.name}
                     /\ last'.value
                           = computation_fn(last'.name, user_kpis_cache'[1]).value)]_vars

\* the engine just after clear_cache
C7_Witness ==
    /\ last.op = "clear_cache"
    /\ cache = <<>>
    /\ user_kpis_cache = <<>>
    /\ queries = 0

\* C8: every registered metric is in exactly one of the two tables of
\* compute_metrics_by_layer: in the executive table if and only if its tier is
\* P0 or P1 and its evaluation succeeded; the metrics of tier P2 or P3 and the
\* failed ones are in the diagnostic table, so no row of the executive table
\* has status ERROR
C8_Layers ==
    BatchReturned =>
        /\ \A name \in MetricNames : Cardinality(RowsOf(name)) = 1
        /\ \A i \in 1..Len(ReturnedRows) :
              /\ ReturnedRows[i].metric_name \in MetricNames
              /\ ReturnedRows[i].tier = Registry[ReturnedRows[i].metric_name].tier
              /\ ReturnedRows[i].status = "ERROR"
                    <=> ReturnedRows[i].metric_name \in LoggedNames
              /\ i <= Len(last.exec)
                    <=> (/\ ReturnedRows[i].tier \in {"P0", "P1"}
                         /\ ReturnedRows[i].status # "ERROR")

\* a batch run with a failed P0 metric and a successful P2 metric in the
\* diagnostic table, and a row in the executive table
C8_Witness ==
    /\ BatchReturned
    /\ last.exec # <<>>
    /\ \E i, j \in 1..Len(last.diag) :
          /\ last.diag[i].tier = "P0" /\ last.diag[i].status = "ERROR"
          /\ last.diag[j].tier = "P2" /\ last.diag[j].status # "ERROR"

\* C9: _enforce_grain fails exactly when the grain is USER and the table has
\* no user_id column, or ORDER and no order_id column, or OVERALL and no rows;
\* a USER-grain metric on a table without user_id fails with a grain mismatch
\* in compute, gets an ERROR row in a batch run, and is never computed
C9_GrainEnforcement ==
    /\ last.op = "_enforce_grain" =>
          /\ last.outcome = "raised" <=>
                \/ last.grain = "USER" /\ "user_id" \notin user_kpis_cache[1].cols
                \/ last.grain = "ORDER" /\ "order_id" \notin user_kpis_cache[1].cols
                \/ last.grain = "OVERALL" /\ Len(user_kpis_cache[1].rows) = 0
          /\ last.err = IF last.outcome = "raised" THEN "GrainMismatch" ELSE "none"
    /\ (user_kpis_cache # <<>> /\ "user_id" \notin user_kpis_cache[1].cols) =>
          /\ (/\ last.op = "compute"
              /\ last.name \in MetricNames
              /\ Registry[last.name].grain = "USER") =>
                 /\ last.outcome = "raised"
                 /\ last.err = "GrainMismatch"
                 /\ last.invoked = {}
          /\ BatchReturned =>
                \A name \in MetricNames :
                    Registry[name].grain = "USER" =>
                        /\ name \notin last.invoked
                        /\ \E k \in 1..Len(last.log) :
                              last.log[k] = <<name, "GrainMismatch">>
                        /\ \A i \in RowsOf(name) :
                              /\ i > Len(last.exec)
                              /\ ReturnedRows[i].status = "ERROR"
                              /\ IsNa(ReturnedRows[i].value)

\* compute of a USER-grain metric stopped by a grain mismatch
C9_Witness ==
    /\ last.op = "compute"
    /\ last.name \in MetricNames
    /\ Registry[last.name].grain = "USER"
    /\ last.err = "GrainMismatch"
    /\ "user_id" \notin user_kpis_cache[1].cols

\* C10: compute of a name that is not registered fails with UnknownMetric for
\* either value of use_cache, without querying the provider and leaving the
\* metric-value cache and the user-table cache as they were
C10_UnknownMetric ==
    [][(last'.op = "compute" /\ last'.name \notin MetricNames) =>
          /\ last'.outcome = "raised"
          /\ last'.err = "UnknownMetric"
          /\ ~last'.queried
          /\ last'.invoked = {}
          /\ UNCHANGED <<cache, user_kpis_cache, queries>>]_vars

\* an unknown name asked of an engine with memoized values and table
C10_Witness ==
    /\ last.op = "compute"
    /\ last.name \notin MetricNames
    /\ last.err = "UnknownMetric"
    /\ cache # <<>>
    /\ user_kpis_cache # <<>>

\* the normalized error of a result, as the claim states it
NormalizedError(result) ==
    IF result.total_change.nan \/ result.total_change.v # 0
    THEN FDiv(FAbs(FSub(FSum(Contributions(result)), result.total_change)),
              FAbs(result.total_change))
    ELSE FAbs(FSub(FSum(Contributions(result)), result.total_change))

\* C11: validate_decomposition(result, tolerance) raises if and only if the
\* normalized error (|sum of contributions - total_change| over |total_change|,
\* raw when total_change is 0) exceeds tolerance, and returns True otherwise,
\* for hand-built results too
C11_ValidateIffErrorExceeds ==
    fn.op = "validate_decomposition" =>
        /\ fn.outcome \in {"raised", "returned"}
        /\ fn.outcome = "raised" <=>
              (/\ ~NormalizedError(fn.result).nan
               /\ NormalizedError(fn.result).v * fn.tol.d > fn.tol.n * Unit)

\* contributions 5 and 3 against a total change of 10, no interaction entry,
\* rejected under tolerance 0.01
C11_Witness ==
    /\ fn.op = "validate_decomposition"
    /\ fn.tol = Lit(1, 100)
    /\ fn.result.total_change = Whole(10)
    /\ Contributions(fn.result) = <<Whole(5), Whole(3)>>
    /\ fn.outcome = "raised"

\* the call of decompose_vpac_change just made, its periods and contributions
Decomposed == dlast.op = "decompose_vpac_change"
OnlyOrdersChange ==
    /\ FNe(dlast.args[1].orders_per_customer, dlast.args[2].orders_per_customer)
    /\ FEq(dlast.args[1].items_per_order, dlast.args[2].items_per_order)
OnlyItemsChange ==
    /\ FNe(dlast.args[1].items_per_order, dlast.args[2].items_per_order)
    /\ FEq(dlast.args[1].orders_per_customer, dlast.args[2].orders_per_customer)
OrdersContribution == FAbs(Contributions(dlast.result[1])[1])
ItemsContribution == FAbs(Contributions(dlast.result[1])[2])

C13_VpacIdentity ==
    (/\ fn.op = "computation_fn"
     /\ fn.name = "vpac"
     /\ fn.data.cols = ColsUser
     /\ fn.data.rows # <<>>) =>
        /\ fn.m.kind = "value"
        /\ LtLit(FAbs(FSub(fn.m.value,
                           FMul(compute_orders_per_customer(fn.data).value,
                                compute_items_per_order(fn.data).value))),
                 1, 100)

\* the orders of row i of the table segment_by_order_frequency was called on
OrdersOf(i) == fn.data.rows[i].orders.v \div Unit

\* C14: every row with an integer orders value >= 0 is One-time iff orders = 1,
\* Occasional iff 2 <= orders <= 4, Regular iff 5 <= orders <= 10 and
\* Power User iff orders >= 11
C14_SegmentRule ==
    (fn.op = "segment_by_order_frequency" /\ "orders" \in fn.data.cols) =>
        \A i \in 1..Len(fn.data.rows) :
            (~fn.data.rows[i].orders.nan /\ OrdersOf(i) >= 0) =>
                /\ fn.segment[i] = "One-time" <=> OrdersOf(i) = 1
                /\ fn.segment[i] = "Occasional" <=> OrdersOf(i) \in 2..4
                /\ fn.segment[i] = "Regular" <=> OrdersOf(i) \in 5..10
                /\ fn.segment[i] = "Power User" <=> OrdersOf(i) >= 11

\* a call of segment_by_order_frequency that returned its summary
Summarized == fn.op = "segment_by_order_frequency" /\ fn.outcome = "returned"

\* DataFrame.sum() of a column of the summary: the rows of NaN are skipped
RECURSIVE SummarySum(_, _)
SummarySum(summary, col) ==
    IF summary = <<>> THEN 0
    ELSE (IF Head(summary).na THEN 0 ELSE Head(summary)[col])
         + SummarySum(Tail(summary), col)
ShareSum(summary, col) ==
    FSum(DropNa([i \in 1..Len(summary) |-> summary[i][col]]))

\* the summary has a row for each of the four segments, and their counts,
\* orders and items add up to those of the table
CountsEveryRowOnce ==
    /\ Len(fn.summary) = 4
    /\ SummarySum(fn.summary, "customer_count") = Len(fn.data.rows)
    /\ SummarySum(fn.summary, "orders") = IntSum(fn.data.rows, "orders")
    /\ SummarySum(fn.summary, "items") = IntSum(fn.data.rows, "items")

\* |x - 1| is within the rounding of the shares and of their sum: a relative
\* error of 2^-MantBits for each of the four segments
NearOne(x) == ~x.nan /\ Abs(x.v - Unit) * (2^MantBits) <= Len(SegmentOrder) * Unit

\* C15 (amended): for a user table with at least one row, the customer_count
\* values of the four segment rows sum to the number of rows and their orders
\* and items to the table's totals, so customer_share sums to 1; order_share
\* sums to 1 when the table's total of orders is not 0
C15_SharesOfNonEmptyTable ==
    (Summarized /\ fn.data.rows # <<>>) =>
        /\ CountsEveryRowOnce
        /\ NearOne(ShareSum(fn.summary, "customer_share"))
        /\ IntSum(fn.data.rows, "orders") # 0
              => NearOne(ShareSum(fn.summary, "order_share"))

\* a one-time customer and a regular one, half of the customers each
C15_Witness ==
    /\ Summarized
    /\ Len(fn.data.rows) = 2
    /\ fn.summary[1].customer_share = Frac(1, 2)
    /\ fn.summary[3].customer_share = Frac(1, 2)
    /\ fn.summary[3].orders = 6
    /\ NearOne(ShareSum(fn.summary, "order_share"))

\* C15 as stated: for any user table the counts and totals add up and
\* customer_share and order_share each sum to 1
C15_SharesOfAnyTable ==
    Summarized =>
        /\ CountsEveryRowOnce
        /\ NearOne(ShareSum(fn.summary, "customer_share"))
        /\ NearOne(ShareSum(fn.summary, "order_share"))

\* C16: the segmentation step of main leaves the engine's cached user-level
\* table as it was, same columns and same rows
C16_CachedTableReadOnly ==
    [][pc = "segments" => user_kpis_cache' = user_kpis_cache]_vars

\* C17: validate(null) fails for every metric of the registry
C17_NullRejected ==
    (fn.op = "validate" /\ IsNa(fn.value)) => fn.err # "none"

\* the bounds of the metric validate was called on, and the value against them
Bounded == {"min", "max"} \subseteq DOMAIN Registry[fn.name].thresholds
AtLeastMin ==
    fn.value.v * Registry[fn.name].thresholds["min"].d
        >= Registry[fn.name].thresholds["min"].n * Unit
AtMostMax ==
    fn.value.v * Registry[fn.name].thresholds["max"].d
        <= Registry[fn.name].thresholds["max"].n * Unit

\* C19: for a metric with min and max thresholds validate accepts a non-null
\* value if and only if min <= value <= max; reorder_rate accepts 0 and 1 and
\* rejects every value below 0 or above 1
C19_InclusiveBounds ==
    (fn.op = "validate" /\ ~IsNa(fn.value)) =>
        /\ Bounded => (fn.err = "none" <=> (AtLeastMin /\ AtMostMax))
        /\ fn.name = "reorder_rate" =>
              /\ fn.value \in {Whole(0), Whole(1)} => fn.err = "none"
              /\ (fn.value.v < 0 \/ fn.value.v > Unit) => fn.err # "none"

\* reorder_rate validated at exactly 1
C19_Witness ==
    /\ fn.op = "validate"
    /\ fn.name = "reorder_rate"
    /\ fn.value = Whole(1)
    /\ fn.err = "none"

\* the computation function of the metric ran on the memoized table and gave
\* null
YieldsNull(name) ==
    /\ user_kpis_cache # <<>>
    /\ user_kpis_cache[1].rows # <<>>
    /\ computation_fn(name, user_kpis_cache[1]).kind = "value"
    /\ IsNa(computation_fn(name, user_kpis_cache[1]).value)
AllowsNull(name) ==
    /\ "allow_null" \in DOMAIN Registry[name].validation_rules
    /\ Registry[name].validation_rules["allow_null"]

C20_HistoryAppendOnly ==
    [][IF dlast'.op = "decompose_vpac_change"
       THEN /\ Len(history') = Len(history) + 1
            /\ history'[Len(history')] = dlast'.result[1]
            /\ \A k \in 1..Len(history) : history'[k] = history[k]
       ELSE /\ dlast'.op \in {"validate_decomposition", "create_waterfall_data"}
            /\ history' = history]_vars

\* a waterfall made after two different decompositions
C20_Witness ==
    /\ dlast.op = "create_waterfall_data"
    /\ Len(history) = 2
    /\ history[1] # history[2]
    /\ Len(dlast.result[1]) = 4

\* the baseline and the end value of the call of decompose_vpac_change just
\* made, and the result it returned
Vpac1 == dlast.args[1].vpac
Vpac2 == dlast.args[2].vpac
DResult == dlast.result[1]

\* decompose_vpac_change returned: total_change is vpac2 - vpac1, the result
\* is the last entry of the history, percent_change is 0 on a zero baseline
\* and vpac2/vpac1 - 1 otherwise
PercentChangeAsComputed ==
    /\ dlast.outcome = "returned"
    /\ history # <<>>
    /\ history[Len(history)] = DResult
    /\ DResult.total_change = FSub(Vpac2, Vpac1)
    /\ IF FEq(Vpac1, Num(0))
       THEN DResult.percent_change = Num(0) /\ DResult.total_change = Vpac2
       ELSE DResult.percent_change = FSub(FDiv(Vpac2, Vpac1), Whole(1))

\* C21 (amended): decompose_vpac_change never fails on a zero baseline: with
\* vpac1 = 0 it returns percent_change 0 and total_change vpac2 and appends
\* the result; with vpac1 # 0, percent_change is the float vpac2/vpac1 - 1
C21_ZeroBaseline == Decomposed => PercentChangeAsComputed

\* a second decomposition, from a baseline of 0 to a vpac of 2
C21_Witness ==
    /\ Decomposed
    /\ Len(history) = 2
    /\ Vpac1 = Num(0)
    /\ Vpac2 = Whole(2)
    /\ DResult.percent_change = Num(0)
    /\ DResult.total_change = Whole(2)

\* C21 as stated: moreover percent_change * vpac1 = total_change whenever
\* vpac1 # 0
C21_PercentTimesBaseline ==
    Decomposed =>
        /\ PercentChangeAsComputed
        /\ FNe(Vpac1, Num(0)) => FMul(DResult.percent_change, Vpac1)
                                    = DResult.total_change

\* the rows of the table segment_by_order_frequency was called on that fall
\* in a segment
InSegmentRows(label) ==
    {i \in 1..Len(fn.data.rows) : fn.segment[i] = label}

\* C22: the table segment_by_order_frequency returns has exactly four rows,
\* One-time, Occasional, Regular, Power User in that order, whichever
\* segments are populated; a segment without customers has a row of nulls
C22_FourRowsInOrder ==
    Summarized =>
        /\ [i \in 1..Len(fn.summary) |-> fn.summary[i].segment]
              = <<"One-time", "Occasional", "Regular", "Power User">>
        /\ \A i \in 1..Len(fn.summary) :
              IF InSegmentRows(fn.summary[i].segment) = {}
              THEN /\ fn.summary[i].na
                   /\ IsNa(fn.summary[i].customer_share)
                   /\ IsNa(fn.summary[i].vpac)
              ELSE /\ ~fn.summary[i].na
                   /\ fn.summary[i].customer_count
                         = Cardinality(InSegmentRows(fn.summary[i].segment))

\* a table of a power user only: three rows of nulls, then the power user's
C22_Witness ==
    /\ Summarized
    /\ fn.segment = <<"Power User">>
    /\ Len(fn.summary) = 4
    /\ fn.summary[1].na /\ fn.summary[2].na /\ fn.summary[3].na
    /\ fn.summary[4].segment = "Power User"
    /\ fn.summary[4].customer_count = 1

\* a period whose vpac is its orders_per_customer times its items_per_order
Consistent(p) == p.vpac = FMul(p.orders_per_customer, p.items_per_order)

\* C23: whenever each period's vpac equals its orders_per_customer times its
\* items_per_order, the interaction returned by decompose_vpac_change is
\* exactly 0 and the two driver contributions alone sum to total_change
C23_NoInteractionWhenConsistent ==
    (fn.op = "decompose_vpac_change" /\ Consistent(fn.p1) /\ Consistent(fn.p2)) =>
        /\ Contributions(fn.result)[3] = Num(0)
        /\ FAdd(Contributions(fn.result)[1], Contributions(fn.result)[2])
              = fn.result.total_change

\* C28: decompose_vpac_change(p2, p1) yields total_change and each of the
\* three driver contributions negated, for all p1, p2
C28_Antisymmetric ==
    fn.op = "decompose_vpac_change" =>
        /\ fn.reversed.total_change = FNeg(fn.result.total_change)
        /\ Len(Contributions(fn.reversed)) = 3
        /\ \A k \in 1..3 :
              /\ fn.reversed.driver_contributions[k].driver
                    = fn.result.driver_contributions[k].driver
              /\ Contributions(fn.reversed)[k] = FNeg(Contributions(fn.result)[k])

\* both drivers changed, 1 x 1 to 3 x 5 and back: contributions 6 and 8 one
\* way, -6 and -8 the other
C28_Witness ==
    /\ fn.op = "decompose_vpac_change"
    /\ fn.p1 = Period(Whole(1), Whole(1), Whole(1))
    /\ fn.p2.orders_per_customer = Whole(3)
    /\ fn.p2.items_per_order = Whole(5)
    /\ Contributions(fn.result)[1] = Whole(6)
    /\ Contributions(fn.result)[2] = Whole(8)
    /\ Contributions(fn.reversed)[1] = Whole(-6)
    /\ Contributions(fn.reversed)[2] = Whole(-8)

\* the rows create_waterfall_data just returned and the result it was given
Steps == dlast.result[1]
Charted == dlast.args[1]

\* C29: create_waterfall_data yields one step per driver contribution, in
\* order, with the running sum as cumulative, then one step Total Change whose
\* value and cumulative are total_change; for a result of
\* decompose_vpac_change the cumulative of the last driver step equals that of
\* the Total Change step
C29_Waterfall ==
    dlast.op = "create_waterfall_data" =>
        /\ Len(Steps) = Len(Charted.driver_contributions) + 1
        /\ \A n \in 1..Len(Charted.driver_contributions) :
              /\ Steps[n].step = Charted.driver_contributions[n].driver
              /\ Steps[n].value = Charted.driver_contributions[n].contribution
              /\ Steps[n].cumulative
                    = FSum(SubSeq(Contributions(Charted), 1, n))
        /\ Steps[Len(Steps)].step = "Total Change"
        /\ Steps[Len(Steps)].value = Charted.total_change
        /\ Steps[Len(Steps)].cumulative = Charted.total_change
        /\ Steps[Len(Steps) - 1].cumulative = Steps[Len(Steps)].cumulative

\* C24: in every state of the engine, if a metric value is memoized then the
\* user-level table is cached, the table satisfies the grain of the metric,
\* and the value is what the metric's computation function gives on the
\* cached table
C24_MemoizedFromCachedTable ==
    \A name \in DOMAIN cache :
        /\ name \in MetricNames
        /\ user_kpis_cache # <<>>
        /\ ~GrainFails(name)
        /\ computation_fn(name, user_kpis_cache[1]).kind = "value"
        /\ cache[name] = computation_fn(name, user_kpis_cache[1]).value

\* get_north_star answered with its three values memoized
C24_Witness ==
    /\ last.op = "get_north_star"
    /\ last.outcome = "returned"
    /\ {"vpac", "orders_per_customer", "items_per_order"} \subseteq DOMAIN cache
    /\ cache["vpac"] = computation_fn("vpac", user_kpis_cache[1]).value

\* C25: when compute(name, use_cache) fails, for whatever reason, the cache of
\* metric values is what it was before the call
C25_FailedComputeKeepsCache ==
    [][(last'.op = "compute" /\ last'.outcome = "raised") => cache' = cache]_vars

\* a compute with use_cache = False that failed on a threshold for a metric
\* with a memoized value, which is still there
C25_Witness ==
    /\ last.op = "compute"
    /\ ~last.use_cache
    /\ last.outcome = "raised"
    /\ last.err = "ThresholdViolation"
    /\ last.name \in DOMAIN cache

\* a number against a threshold of a metric, when the metric declares it
Under(name, key, value) ==
    /\ ~value.nan
    /\ key \in DOMAIN Registry[name].thresholds
    /\ value.v * Registry[name].thresholds[key].d
          < Registry[name].thresholds[key].n * Unit
Over(name, key, value) ==
    /\ ~value.nan
    /\ key \in DOMAIN Registry[name].thresholds
    /\ value.v * Registry[name].thresholds[key].d
          > Registry[name].thresholds[key].n * Unit

\* the status the claim gives a row by its metric and value
StatusByValue(name, value) ==
    IF IsNa(value) THEN "UNKNOWN"
    ELSE IF Under(name, "warn_min", value) \/ Over(name, "warn_max", value)
    THEN "WARNING"
    ELSE "OK"

\* C26: in the tables of a batch run a row is UNKNOWN for an allowed null,
\* WARNING for a value within [min, max] but below warn_min or above warn_max,
\* OK for a value within all thresholds; a value below min or above max gives
\* a row of null value and status ERROR, and CRITICAL never appears
C26_BatchStatus ==
    BatchReturned =>
        /\ \A i \in 1..Len(ReturnedRows) :
              /\ ReturnedRows[i].status \in {"OK", "WARNING", "UNKNOWN", "ERROR"}
              /\ ReturnedRows[i].status = "ERROR" => IsNa(ReturnedRows[i].value)
              /\ ReturnedRows[i].status # "ERROR" =>
                    /\ ReturnedRows[i].status
                          = StatusByValue(ReturnedRows[i].metric_name,
                                          ReturnedRows[i].value)
                    /\ IsNa(ReturnedRows[i].value)
                          => AllowsNull(ReturnedRows[i].metric_name)
                    /\ ~Under(ReturnedRows[i].metric_name, "min",
                              ReturnedRows[i].value)
                    /\ ~Over(ReturnedRows[i].metric_name, "max",
                             ReturnedRows[i].value)
        /\ \A name \in MetricNames :
              (/\ ~GrainFails(name)
               /\ user_kpis_cache[1].rows # <<>>
               /\ computation_fn(name, user_kpis_cache[1]).kind = "value"
               /\ ~IsNa(computation_fn(name, user_kpis_cache[1]).value)
               /\ \/ Under(name, "min", computation_fn(name, user_kpis_cache[1]).value)
                  \/ Over(name, "max", computation_fn(name, user_kpis_cache[1]).value))
              => \A i \in RowsOf(name) :
                    ReturnedRows[i].status = "ERROR" /\ IsNa(ReturnedRows[i].value)

\* a batch run with a reorder rate below warn_min (WARNING) and an
\* orders_per_customer below min (ERROR)
C26_Witness ==
    /\ BatchReturned
    /\ \E i \in RowsOf("reorder_rate") : ReturnedRows[i].status = "WARNING"
    /\ \E i \in RowsOf("orders_per_customer") : ReturnedRows[i].status = "ERROR"
    /\ \E k \in 1..Len(last.log) :
          last.log[k] = <<"orders_per_customer", "ThresholdViolation">>

\* the rules of the definition compute was called on
RuleSet(key) == key \in DOMAIN fn.def.validation_rules
RuleIs(key, value) == RuleSet(key) /\ fn.def.validation_rules[key] = value
LacksColumns ==
    /\ RuleSet("required_columns")
    /\ \E col \in fn.def.validation_rules["required_columns"] :
          col \notin fn.data.cols
\* the computation function divides by zero on the table
DividesByZero ==
    /\ fn.def.name = "total_items_per_order"
    /\ {"items", "orders"} \subseteq fn.data.cols
    /\ \A i \in 1..Len(fn.data.rows) : fn.data.rows[i].orders = Whole(0)

\* C27: MetricDefinition.compute checks in a fixed order: an empty table gives
\* 0.0 under allow_empty and a failure otherwise, without a look at the
\* columns or a call of the function; a non-empty table lacking a required
\* column fails with the missing-columns error without a call; a division by
\* zero in the function gives 0.0 under return_zero, null under return_null
\* and a failure under error or no rule
C27_PreChecksInOrder ==
    fn.op = "compute" =>
        IF fn.data.rows = <<>>
        THEN /\ ~fn.m.invoked
             /\ IF RuleIs("allow_empty", TRUE)
                THEN fn.m.kind = "value" /\ fn.m.value = Num(0)
                ELSE fn.m.kind = "raised" /\ fn.m.err = "EmptyDataset"
        ELSE IF LacksColumns
        THEN /\ ~fn.m.invoked
             /\ fn.m.kind = "raised" /\ fn.m.err = "MissingColumns"
        ELSE /\ fn.m.invoked
             /\ DividesByZero =>
                   IF RuleIs("division_by_zero", "return_zero")
                   THEN fn.m.kind = "value" /\ fn.m.value = Num(0)
                   ELSE IF RuleIs("division_by_zero", "return_null")
                   THEN fn.m.kind = "value" /\ IsNa(fn.m.value)
                   ELSE fn.m.kind = "raised" /\ fn.m.err = "DivisionByZero"

\* an empty table lacking a required column, under allow_empty: 0.0
C27_Witness ==
    /\ fn.op = "compute"
    /\ fn.data.rows = <<>>
    /\ LacksColumns
    /\ RuleIs("allow_empty", TRUE)
    /\ fn.m.kind = "value"
    /\ fn.m.value = Num(0)
    /\ ~fn.m.invoked

\* the metrics a compare_periods call compares, in the order of its loop
ComparedNames(metric_name) ==
    IF metric_name = "" THEN RegistryOrder ELSE <<metric_name>>

\* the metric computes on both tables of the call
ComputesOnBoth(name, tables) ==
    /\ MetricCompute(Registry[name], tables[1]).kind # "raised"
    /\ MetricCompute(Registry[name], tables[2]).kind # "raised"

\* the row is the comparison of its metric on the two tables
RowCompares(row, tables) ==
    /\ row.period_1 = MetricCompute(Registry[row.metric], tables[1]).value
    /\ row.period_2 = MetricCompute(Registry[row.metric], tables[2]).value
    /\ row.absolute_change = FSub(row.period_2, row.period_1)
    /\ row.percent_change =
          IF FEq(row.period_1, Num(0)) THEN Num(0)
          ELSE FDiv(row.absolute_change, row.period_1)

\* rows holds one row for each of the names that computes on both tables, in
\* the order of names, and nothing else
OneRowPerComputed(rows, names, tables) ==
    /\ Len(rows) = Cardinality({i \in 1..Len(names) : ComputesOnBoth(names[i], tables)})
    /\ \A k \in 1..Len(rows) :
          /\ \E i \in 1..Len(names) :
                /\ names[i] = rows[k].metric
                /\ ComputesOnBoth(names[i], tables)
                /\ \A j \in 1..(k - 1) :
                      \E h \in 1..(i - 1) : names[h] = rows[j].metric
          /\ RowCompares(rows[k], tables)

\* C30: a call of compare_periods, in whatever state the engine is, leaves
\* the cache of metric values and the cached user table as they were and sends
\* no query to the provider; for every metric of the registry (no name) or for
\* one registered metric it returns one row for each compared metric that
\* computes on both tables, with absolute_change = period 2 - period 1 and
\* percent_change = absolute_change / period 1, or 0 when period 1 is 0; a
\* metric that fails on either table has no row and the others keep theirs.
C30_ComparePeriods ==
    [][last'.op = "compare_periods" =>
          /\ cache' = cache
          /\ user_kpis_cache' = user_kpis_cache
          /\ queries' = queries
          /\ ~last'.queried
          /\ (last'.name = "" \/ last'.name \in MetricNames) =>
                /\ last'.outcome = "returned"
                /\ OneRowPerComputed(last'.all, ComparedNames(last'.name),
                                     last'.args)]_vars

\* every metric was compared in an engine holding cached values: some metric
\* failed on a table and has no row, another has a row whose period 1 is 0
C30_Witness ==
    /\ last.op = "compare_periods"
    /\ last.name = ""
    /\ cache # <<>>
    /\ Len(last.log) > 0
    /\ \E k \in 1..Len(last.all) :
          /\ last.all[k].period_1 = Num(0)
          /\ last.all[k].absolute_change # Num(0)
          /\ last.all[k].percent_change = Num(0)
    /\ Len(last.all) + Len(last.log) = Len(RegistryOrder)

====
